---- MODULE Spec2Model ----
(***************************************************************************)
(* Verification model of kamu-molecule-bridge.                             *)
(*                                                                         *)
(* These state machines share this module:                                 *)
(*   SpecLogs - the Log Fetcher (alloy_ext::provider_ext): get_logs_ext,   *)
(*              binary_get_logs and with_retry against an RPC provider     *)
(*              that may reject, fail transiently or fail for good.        *)
(*   Spec     - the bridge application (app.rs): init, update, indexing,   *)
(*              the catalogue sync and the reconciler, against a chain, a  *)
(*              multisig oracle and a catalogue that evolve.               *)
(*   SpecTransfers - process_token_transfer_events on batches of IP token  *)
(*              Transfer events, with U256 arithmetic.                     *)
(*   SpecTokenized - the application started on a chain that already holds *)
(*              a tokenized IPNFT whose project has a file for holders.    *)
(*   SpecFiles - the same, with the project's data room being written.     *)
(*   SpecShutdown - the same, with the shutdown signal of App::run.        *)
(*   SpecReaders - the same, with update split at its awaits and a reader  *)
(*              of the shared AppState (GET /system/state).                *)
(*   SpecRestart - init run to its end by a process and by its successor.  *)
(*   SpecAudit, SpecSync, SpecDid - parts of the application on their own: *)
(*              the audit map, the files of one project over several       *)
(*              syncs, the account ids under any configured chain id.      *)
(*   SpecStrategy, SpecUid, SpecResolver - components outside app.rs: the  *)
(*              decision-making IpnftEventProcessingStrategy, IpnftUid as  *)
(*              a string, SafeWalletApiService and its cache.              *)
(*   SpecTokenizer - the application against a Tokenizer whose creation    *)
(*              events need not match an IPNFT and may come twice.         *)
(*   SpecHandover - the application with an IPNFT that changes hands       *)
(*              several times between two updates.                         *)
(*   SpecLevels, SpecSafes, SpecBirthBlock - the access levels of a        *)
(*              project's files over several syncs, index_multisig_safes   *)
(*              over a multisig map filled by get_owners, and              *)
(*              minimal_ipt_birth_block as the App and as                  *)
(*              TokenizerEventProcessingStrategy compute it.               *)
(***************************************************************************)
EXTENDS Integers, Sequences, FiniteSets, TLC

VARIABLES
    fetch,      \* the call frame of one get_logs_ext call (SpecLogs)
    chain,      \* the finalized chain: chain[b] is the logs of block b
    catalogue,  \* the Kamu Node catalogue: projects ledger, data rooms, levels
    downstream, \* the Kamu Node accounts and account/dataset relations
    pc,         \* where App::main stands: "init", "loop", "exited", "stopped";
                \* "in_init", "in_update" inside a call (SpecReaders); the
                \* component under study otherwise ("sync", "resolver",
                \* "levels", "safes", "birth_block", ...)
    state,      \* the shared AppState (App.state)
    iter,       \* what the last init/update call did (observation)
    hist,       \* what all calls so far did (observation)
    processed,  \* the last process_token_transfer_events call (SpecTransfers)
    rw,         \* the RwLock around the shared AppState and its reader (SpecReaders)
    unit        \* the last call of a component taken on its own, and its store

appVars == <<chain, catalogue, downstream, pc, state, iter, hist, processed, rw, unit>>
vars == <<fetch, chain, catalogue, downstream, pc, state, iter, hist, processed, rw, unit>>

(***************************************************************************)
(* Generic helpers                                                         *)
(***************************************************************************)
None == <<>>
Some(v) == <<v>>
IsSome(o) == o # <<>>
Unwrap(o) == o[1]

Min(a, b) == IF a <= b THEN a ELSE b

RECURSIVE SetToSeq(_)
SetToSeq(S) ==
    IF S = {} THEN <<>>
    ELSE LET x == CHOOSE y \in S : TRUE IN <<x>> \o SetToSeq(S \ {x})

RECURSIVE Flatten(_)
Flatten(ss) == IF ss = <<>> THEN <<>> ELSE Head(ss) \o Flatten(Tail(ss))

Range(s) == {s[i] : i \in DOMAIN s}

(***************************************************************************)
(* Log Fetcher: src/utils/alloy_ext/src/provider_ext.rs                    *)
(***************************************************************************)
MAX_ADDRESSES_PER_RPC_REQUEST == 25
MIN_BLOCK_RANGE == 1
MAX_RETRY_COUNT == 3
DELAY_BETWEEN_RETRIES_STEP == 1

\* Bounds of the Log Fetcher model.
MaxFetchBlock == 3          \* blocks 0..MaxFetchBlock exist on the chain
ExtraAddresses == 1         \* addresses beyond one full window

\* The event signatures on the chain, and the filters callers pass.
AllSignatures == {"sigA", "sigB", "sigC"}
SignatureFilters == {{"sigA"}, {"sigA", "sigB"}}

\* Address lists as the callers build them: pairwise distinct (map keys).
\* Lengths: one address, exactly one full window, more than one window.
AddressListLengths ==
    {1, MAX_ADDRESSES_PER_RPC_REQUEST,
     MAX_ADDRESSES_PER_RPC_REQUEST + ExtraAddresses}

\* Addresses that emit logs: first, last of first window, first of second
\* window, and one that is in no list.
EmittingAddresses ==
    {1, MAX_ADDRESSES_PER_RPC_REQUEST, MAX_ADDRESSES_PER_RPC_REQUEST + 1,
     MAX_ADDRESSES_PER_RPC_REQUEST + ExtraAddresses + 1}

\* The chain: every emitting address emits every signature in every block,
\* so a gap or an overlap of the fetched ranges shows in the delivered logs.
ChainLogs ==
    [block : 0..MaxFetchBlock, address : EmittingAddresses, sig : AllSignatures]

\* addresses.chunks(MAX_ADDRESSES_PER_RPC_REQUEST): the w-th window (1-based).
WindowCount(addresses) ==
    (Len(addresses) + MAX_ADDRESSES_PER_RPC_REQUEST - 1)
        \div MAX_ADDRESSES_PER_RPC_REQUEST

AddressWindow_overlap(addresses, w) ==
    {addresses[i] : i \in
        {j \in DOMAIN addresses :
            /\ j >= (w - 1) * MAX_ADDRESSES_PER_RPC_REQUEST
            /\ j <= w * MAX_ADDRESSES_PER_RPC_REQUEST}}

AddressWindow(addresses, w) ==
    {addresses[i] : i \in
        {j \in DOMAIN addresses :
            /\ j > (w - 1) * MAX_ADDRESSES_PER_RPC_REQUEST
            /\ j <= w * MAX_ADDRESSES_PER_RPC_REQUEST}}

\* What the provider answers to get_logs(filter): the logs matching the
\* filter, in ascending block order.
MatchingLogs(addrs, sigs, from_block, to_block) ==
    {l \in ChainLogs :
        /\ l.address \in addrs
        /\ l.sig \in sigs
        /\ l.block >= from_block
        /\ l.block <= to_block}

RECURSIVE ProviderGetLogs(_, _, _, _)
ProviderGetLogs(addrs, sigs, from_block, to_block) ==
    IF from_block > to_block THEN <<>>
    ELSE SetToSeq(MatchingLogs(addrs, sigs, from_block, from_block))
            \o ProviderGetLogs(addrs, sigs, from_block + 1, to_block)

middle_block_gap(from_block, to_block) ==
    from_block + (to_block - from_block + 1) \div 2

middle_block(from_block, to_block) ==
    from_block + (to_block - from_block) \div 2

\* The provider's answers to one request.
\*   ok        - the logs
\*   too_large - a non-retryable error whose message is_too_many_events_error
\*               recognises
\*   retryable - a transport error with is_retry_err()
\*   fatal     - any other error
ProviderAnswers == {"ok", "too_large", "retryable", "fatal"}

is_too_many_events_error(answer) == answer = "too_large"

\* with_retry's loop for one operation: the retry counter after `answer`,
\* and what with_retry returns ("none" while it keeps looping).
with_retry_returns_early(retry_count, answer) ==
    CASE answer = "ok" -> "Ok"
      [] answer = "retryable" ->
            IF retry_count >= MAX_RETRY_COUNT - 1 THEN "Other" ELSE "none"
      [] OTHER -> "Transport"

with_retry_returns(retry_count, answer) ==
    CASE answer = "ok" -> "Ok"
      [] answer = "retryable" ->
            IF retry_count >= MAX_RETRY_COUNT THEN "Other" ELSE "none"
      [] OTHER -> "Transport"

retry_delay(retry_count) == DELAY_BETWEEN_RETRIES_STEP * (retry_count + 1)

FetchInit ==
    \E n \in AddressListLengths, sigs \in SignatureFilters,
       from_block \in 0..MaxFetchBlock, to_block \in 0..MaxFetchBlock :
        /\ from_block <= to_block
        /\ fetch = [addresses        |-> [i \in 1..n |-> i],
                    event_signatures |-> sigs,
                    from_block       |-> from_block,
                    to_block         |-> to_block,
                    window           |-> 1,
                    stack            |-> <<[from_block |-> from_block,
                                            to_block   |-> to_block]>>,
                    retry_count      |-> 0,
                    attempts         |-> 0,
                    sleeps           |-> <<>>,
                    last_call        |-> [attempts |-> 0, sleeps |-> <<>>,
                                         returned |-> "none",
                                         answer   |-> "none"],
                    delivered        |-> <<>>,
                    splits           |-> {},
                    faults           |-> {},
                    result           |-> "running"]

\* The frame after the current binary_get_logs call returned Ok: the caller
\* continues with the next pending call of this window, then with the next
\* window (get_logs_ext's loop), then returns Ok.
FrameAfterCallOk(f, rest) ==
    IF rest # <<>> THEN [f EXCEPT !.stack = rest]
    ELSE IF f.window < WindowCount(f.addresses)
         THEN [f EXCEPT !.window = f.window + 1,
                        !.stack = <<[from_block |-> f.from_block,
                                     to_block   |-> f.to_block]>>]
         ELSE [f EXCEPT !.stack = <<>>, !.result = "ok"]

\* One request of with_retry inside binary_get_logs, and what follows from
\* its answer.
BinaryGetLogsStep(answer, callback_ok) ==
    /\ fetch.result = "running"
    /\ fetch.stack # <<>>
    /\ LET top   == Head(fetch.stack)
           rest  == Tail(fetch.stack)
           ret   == with_retry_returns(fetch.retry_count, answer)
           tried == [fetch EXCEPT
                        !.attempts = fetch.attempts + 1,
                        !.last_call =
                            IF ret = "none" THEN fetch.last_call
                            ELSE [attempts |-> fetch.attempts + 1,
                                  sleeps   |-> fetch.sleeps,
                                  returned |-> ret,
                                  answer   |-> answer]]
           fresh(f) == [f EXCEPT !.retry_count = 0, !.attempts = 0,
                                 !.sleeps = <<>>]
       IN
       CASE ret = "none" ->
              \* retryable error: sleep, count, loop
              /\ callback_ok
              /\ fetch' = [tried EXCEPT
                    !.sleeps = Append(fetch.sleeps, retry_delay(fetch.retry_count)),
                    !.retry_count = fetch.retry_count + 1,
                    !.faults = fetch.faults \cup {"retryable"}]
         [] ret = "Ok" ->
              LET chunk == [window     |-> fetch.window,
                            from_block |-> top.from_block,
                            to_block   |-> top.to_block,
                            logs       |-> ProviderGetLogs(
                                AddressWindow(fetch.addresses, fetch.window),
                                fetch.event_signatures,
                                top.from_block, top.to_block)]
                  got == [tried EXCEPT !.delivered = Append(fetch.delivered, chunk)]
              IN  IF callback_ok
                  THEN fetch' = fresh(FrameAfterCallOk(got, rest))
                  ELSE fetch' = [got EXCEPT !.result = "err",
                                            !.faults = fetch.faults \cup {"callback"}]
         [] ret = "Transport" /\ is_too_many_events_error(answer) ->
              /\ callback_ok
              /\ IF top.to_block - top.from_block + 1 <= MIN_BLOCK_RANGE
                 THEN fetch' = [tried EXCEPT
                        !.result = "err",
                        !.faults = fetch.faults \cup {"single_block_too_large"}]
                 ELSE LET mid == middle_block(top.from_block, top.to_block)
                      IN fetch' = fresh([tried EXCEPT
                            !.stack = <<[from_block |-> top.from_block,
                                         to_block   |-> mid],
                                        [from_block |-> mid + 1,
                                         to_block   |-> top.to_block]>> \o rest,
                            !.splits = fetch.splits \cup
                                {[window     |-> fetch.window,
                                  from_block |-> top.from_block,
                                  to_block   |-> top.to_block,
                                  mid        |-> mid]}])
         [] OTHER ->
              \* exhausted retries (Other) or an unexpected transport error
              /\ callback_ok
              /\ fetch' = [tried EXCEPT
                    !.result = "err",
                    !.faults = fetch.faults \cup
                        {IF ret = "Other" THEN "retries_exhausted" ELSE "fatal"}]

(***************************************************************************)
(* The bridge application: src/app/bridge/src/app.rs                       *)
(***************************************************************************)
\* Bounds of the application model.
MaxBlock == 4               \* the chain finalizes blocks 1..MaxBlock
MaxTransactions == 2        \* transactions the chain carries
MaxCatalogueChanges == 3    \* rows the catalogue receives
InitialSupply == 2          \* IP tokens issued when an IPNFT is tokenized
U256Bits == 4               \* bits of a U256 in this model (256 in the build)

\* Configuration (config.rs) and constants.
chain_id == 1
ipnft_contract_birth_block == 1
tokenizer_contract_birth_block == 1
ipnft_contract_address == "ipnft"
tokenizer_contract_address == "tokenizer"
IPT_ACCESS_THRESHOLD == 0
ZERO == "0x0"               \* Address::ZERO

\* The addresses of the world: wallets, Safe multisig wallets and the IP
\* token contracts the Tokenizer deploys; the IPNFT token ids and symbols.
Wallets == {"e1", "e2"}
Safes == {"ms"}
SafeSetupOwners == [a \in Safes |-> {"e1", "e2"}]
TokenContracts == {"t1"}
TokenIds == {1}
SymbolOf(token_id) == "SYM"
IpnftUid(token_id) ==
    [ipnft_address |-> ipnft_contract_address, token_id |-> token_id]

\* HashMap operations.
EmptyMap == <<>>
MapInsert(m, k, v) ==
    [x \in DOMAIN m \cup {k} |-> IF x = k THEN v ELSE m[x]]
MapRemove(m, k) == [x \in DOMAIN m \ {k} |-> m[x]]
MapExtend(m, n) ==
    [x \in DOMAIN m \cup DOMAIN n |-> IF x \in DOMAIN n THEN n[x] ELSE m[x]]
MapOnly(m, keys) == [x \in DOMAIN m \cap keys |-> m[x]]
MapGetOr(m, k, default) == IF k \in DOMAIN m THEN m[k] ELSE default

(***************************************************************************)
(* The chain. A block is the sequence of logs of (at most) one transaction.*)
(***************************************************************************)
LogIPNFTMinted(token_id, owner) ==
    [address |-> ipnft_contract_address, sig |-> "IPNFTMinted",
     tokenId |-> token_id, owner |-> owner, symbol |-> SymbolOf(token_id)]
LogIPNFTTransfer(token_id, from, to) ==
    [address |-> ipnft_contract_address, sig |-> "Transfer",
     tokenId |-> token_id, from |-> from, to |-> to]
LogTokensCreated(token_id, token_contract) ==
    [address |-> tokenizer_contract_address, sig |-> "TokensCreated",
     ipnftId |-> token_id, symbol |-> SymbolOf(token_id),
     tokenContract |-> token_contract]
LogIPTTransfer(token_contract, from, to, value) ==
    [address |-> token_contract, sig |-> "Transfer",
     from |-> from, to |-> to, value |-> value]
LogSafeOwner(safe, sig, owner) ==
    [address |-> safe, sig |-> sig, owner |-> owner]

\* The contracts' storage after a sequence of logs.
GenesisWorld ==
    [ipnft_owner  |-> EmptyMap,      \* token id -> owner (ZERO once burnt)
     ipt_of       |-> EmptyMap,      \* token id -> IP token contract
     balances     |-> EmptyMap,      \* IP token contract -> (holder -> balance)
     safe_owners  |-> SafeSetupOwners]

WorldAfterLog(w, l) ==
    CASE l.address = ipnft_contract_address /\ l.sig = "Transfer" ->
            [w EXCEPT !.ipnft_owner = MapInsert(@, l.tokenId, l.to)]
      [] l.address = ipnft_contract_address /\ l.sig = "IPNFTMinted" -> w
      [] l.address = tokenizer_contract_address ->
            [w EXCEPT !.ipt_of = MapInsert(@, l.ipnftId, l.tokenContract),
                      !.balances = MapInsert(@, l.tokenContract, EmptyMap)]
      [] l.address \in DOMAIN w.balances ->
            LET b  == w.balances[l.address]
                b1 == IF l.from = ZERO THEN b
                      ELSE MapInsert(b, l.from, b[l.from] - l.value)
                b2 == IF l.to = ZERO THEN b1
                      ELSE MapInsert(b1, l.to, MapGetOr(b1, l.to, 0) + l.value)
            IN [w EXCEPT !.balances = MapInsert(@, l.address, b2)]
      [] l.address \in Safes /\ l.sig = "AddedOwner" ->
            [w EXCEPT !.safe_owners[l.address] = @ \cup {l.owner}]
      [] l.address \in Safes /\ l.sig = "RemovedOwner" ->
            [w EXCEPT !.safe_owners[l.address] = @ \ {l.owner}]

RECURSIVE WorldAfterLogs(_, _)
WorldAfterLogs(w, logs) ==
    IF logs = <<>> THEN w
    ELSE WorldAfterLogs(WorldAfterLog(w, Head(logs)), Tail(logs))

World == WorldAfterLogs(GenesisWorld, Flatten(chain))

\* The transactions the contracts accept in world w.
MintTransactions(w) ==
    {<<LogIPNFTTransfer(id, ZERO, o), LogIPNFTMinted(id, o)>> :
        id \in TokenIds \ DOMAIN w.ipnft_owner, o \in {"e1"} \cup Safes}

LiveIpnfts(w) == {id \in DOMAIN w.ipnft_owner : w.ipnft_owner[id] # ZERO}

TransferTransactions(w) ==
    UNION {{<<LogIPNFTTransfer(id, w.ipnft_owner[id], to)>> :
                to \in (Wallets \cup Safes \cup {ZERO}) \ {w.ipnft_owner[id]}} :
           id \in LiveIpnfts(w)}

TokenizeTransactions(w) ==
    UNION {{<<LogTokensCreated(id, t),
              LogIPTTransfer(t, ZERO, w.ipnft_owner[id], InitialSupply)>> :
                t \in TokenContracts \ DOMAIN w.balances} :
           id \in LiveIpnfts(w) \ DOMAIN w.ipt_of}

IptTransferTransactions(w) ==
    UNION {UNION {{<<LogIPTTransfer(t, from, to, value)>> :
                        to \in (Wallets \cup {ZERO}) \ {from},
                        value \in 1..w.balances[t][from]} :
                  from \in DOMAIN w.balances[t]} :
           t \in DOMAIN w.balances}

SafeTransactions(w) ==
    UNION {{<<LogSafeOwner(a, "AddedOwner", o)>> :
                o \in Wallets \ w.safe_owners[a]}
           \cup {<<LogSafeOwner(a, "RemovedOwner", o)>> :
                o \in {x \in w.safe_owners[a] : Cardinality(w.safe_owners[a]) > 1}} :
           a \in Safes}

Transactions(w) ==
    MintTransactions(w) \cup TransferTransactions(w) \cup TokenizeTransactions(w)
        \cup IptTransferTransactions(w) \cup SafeTransactions(w)

TransactionCount == Cardinality({b \in DOMAIN chain : chain[b] # <<>>})

\* provider.get_logs through get_logs_ext, as the application uses it: the
\* logs of the addresses with the signatures in blocks [from_block, to_block],
\* in block order, each with its block number.
RECURSIVE BlockLogs(_, _)
BlockLogs(b, logs) ==
    IF logs = <<>> THEN <<>>
    ELSE <<[block_number |-> b, inner |-> Head(logs)]>> \o BlockLogs(b, Tail(logs))

RECURSIVE ChainLogsIn(_, _)
ChainLogsIn(from_block, to_block) ==
    IF from_block > to_block THEN <<>>
    ELSE (IF from_block \in DOMAIN chain
          THEN BlockLogs(from_block, chain[from_block]) ELSE <<>>)
         \o ChainLogsIn(from_block + 1, to_block)

get_logs_ext(addresses, event_signatures, from_block, to_block) ==
    SelectSeq(ChainLogsIn(from_block, to_block),
              LAMBDA l : l.inner.address \in addresses
                         /\ l.inner.sig \in event_signatures)

latest_finalized_block_number == Len(chain)

(***************************************************************************)
(* The catalogue (Kamu Node): kamu_node_api_client_impl.rs                 *)
(***************************************************************************)
Files == {"f1"}
MoleculeAccessLevel == {"Public", "Admin", "Admin2", "Holder"}
WrittenAccessLevels == {"Holder", "Admin"}
DataRoomOf(token_id) == "data_room"
AnnouncementsOf(token_id) == "announcements"

ProjectRow(token_id) ==
    [ipnft_uid |-> IpnftUid(token_id), symbol |-> SymbolOf(token_id),
     data_room_dataset_id |-> DataRoomOf(token_id),
     announcements_dataset_id |-> AnnouncementsOf(token_id)]

\* Rows the catalogue's writers can add next.
ProjectRowsToAdd ==
    {ProjectRow(id) : id \in
        {i \in TokenIds : \A k \in DOMAIN catalogue.projects :
                            catalogue.projects[k].ipnft_uid # IpnftUid(i)}}

RECURSIVE LiveFiles(_)
LiveFiles(rows) ==
    IF rows = <<>> THEN {}
    ELSE LET r == rows[Len(rows)]
             before == LiveFiles(SubSeq(rows, 1, Len(rows) - 1))
         IN IF r.op = "Append" THEN before \cup {r.ref} ELSE before \ {r.ref}

DataRoomRowsToAdd(data_room) ==
    LET live == LiveFiles(catalogue.data_rooms[data_room])
    IN {[op |-> "Append", ref |-> f] : f \in Files \ live}
       \cup {[op |-> "Retract", ref |-> f] : f \in live}

CatalogueChangeCount ==
    Len(catalogue.projects) + catalogue.level_writes
    + Len(Flatten([i \in 1..Len(catalogue.projects) |->
            catalogue.data_rooms[catalogue.projects[i].data_room_dataset_id]]))

\* SELECT ... FROM projects WHERE offset >= {offset} ORDER BY offset
get_molecule_project_entries(offset) ==
    LET n == Len(catalogue.projects)
        first == IF offset + 1 > n THEN n + 1 ELSE offset + 1
    IN [i \in 1..(n - first + 1) |->
            [offset |-> first + i - 2,
             ipnft_uid |-> catalogue.projects[first + i - 1].ipnft_uid,
             symbol |-> catalogue.projects[first + i - 1].symbol,
             data_room_dataset_id |->
                catalogue.projects[first + i - 1].data_room_dataset_id,
             announcements_dataset_id |->
                catalogue.projects[first + i - 1].announcements_dataset_id]]

VersionedFilesEntriesDefault ==
    [latest_data_room_offset |-> 0, added_entities |-> EmptyMap,
     removed_entities |-> EmptyMap]

\* The fold of get_versioned_files_entries_by_data_rooms over the rows of
\* one data room with offset >= from_offset (rows[i] has offset i - 1).
RECURSIVE FoldDataRoomRows(_, _, _)
FoldDataRoomRows(entries, rows, i) ==
    IF i > Len(rows) THEN entries
    ELSE LET dto   == rows[i]
             entry == [offset |-> i - 1]
             next  ==
                IF dto.op = "Append"
                THEN [entries EXCEPT
                        !.latest_data_room_offset = i - 1,
                        !.removed_entities = MapRemove(@, dto.ref),
                        !.added_entities = MapInsert(@, dto.ref, entry)]
                ELSE [entries EXCEPT
                        !.latest_data_room_offset = i - 1,
                        !.added_entities = MapRemove(@, dto.ref),
                        !.removed_entities = MapInsert(@, dto.ref, entry)]
         IN FoldDataRoomRows(next, rows, i + 1)

\* data_rooms: a set of [dataset_id, offset]. Only data rooms with a row at
\* or after the requested offset get an entry in the result.
get_versioned_files_entries_by_data_rooms(data_rooms) ==
    LET ids == {d.dataset_id : d \in data_rooms}
        from(id) == CHOOSE o \in {d.offset : d \in {x \in data_rooms : x.dataset_id = id}} :
                        \A d \in data_rooms : d.dataset_id = id => o <= d.offset
        with_rows == {id \in ids \cap DOMAIN catalogue.data_rooms :
                        Len(catalogue.data_rooms[id]) > from(id)}
    IN [id \in with_rows |->
            FoldDataRoomRows(VersionedFilesEntriesDefault,
                             catalogue.data_rooms[id], from(id) + 1)]

\* The latest molecule_access_level of each versioned file that has entries.
get_latest_molecule_access_levels_by_dataset_ids(versioned_file_dataset_ids) ==
    MapOnly(catalogue.access_levels, versioned_file_dataset_ids)

(***************************************************************************)
(* IPNFT Event Projector (IpnftEventProcessingStrategy)                    *)
(***************************************************************************)
IpnftEventProjectionDefault ==
    [symbol |-> None, current_owner |-> None, former_owner |-> None,
     minted |-> FALSE, burnt |-> FALSE]

ProjectionAfterEvent(projection, event) ==
    CASE event.kind = "Minted" ->
            [projection EXCEPT !.symbol = Some(event.symbol),
                               !.current_owner = Some(event.initial_owner),
                               !.minted = TRUE]
      [] event.kind = "Transfer" ->
            [projection EXCEPT !.current_owner = Some(event.to),
                               !.former_owner = Some(event.from)]
      [] event.kind = "Burnt" ->
            [projection EXCEPT !.current_owner = None,
                               !.former_owner = Some(event.former_owner),
                               !.burnt = TRUE]

\* process(events): the projection of each IPNFT the batch mentions.
RECURSIVE process_from(_, _)
process_from(projections, events) ==
    IF events = <<>> THEN projections
    ELSE LET event == Head(events)
             uid == event.ipnft_uid
             before == MapGetOr(projections, uid, IpnftEventProjectionDefault)
         IN process_from(
                MapInsert(projections, uid, ProjectionAfterEvent(before, event)),
                Tail(events))

process(events) == process_from(EmptyMap, events)

\* The batch-to-global merge.
synchronize_ipnft_event_projections(global, batch) ==
    [symbol        |-> IF IsSome(global.symbol) THEN global.symbol ELSE batch.symbol,
     current_owner |-> IF IsSome(batch.current_owner)
                       THEN batch.current_owner ELSE global.current_owner,
     former_owner  |-> IF IsSome(batch.former_owner)
                       THEN batch.former_owner ELSE global.former_owner,
     minted        |-> global.minted \/ batch.minted,
     burnt         |-> batch.burnt]

(***************************************************************************)
(* AppState and indexing                                                   *)
(***************************************************************************)
AppStateDefault ==
    [projects_dataset_offset             |-> None,
     ipnft_state_map                     |-> EmptyMap,
     latest_indexed_block_number         |-> 0,
     token_address_ipnft_uid_mapping     |-> EmptyMap,
     tokens_latest_indexed_block_number  |-> 0,
     molecule_projects_last_requested_at |-> None,
     multisig                            |-> EmptyMap,
     access_changes                      |-> <<>>]

IpnftChangesDefault ==
    [minted_and_burnt        |-> FALSE,
     owner_changes           |-> [former_owner |-> None, current_owner |-> None],
     holder_balances_changes |-> EmptyMap,
     changed_files           |-> {}]

\* The callback of index_ipnft_and_tokenizer_contracts for one log.
IpnftEventsOfLog(log) ==
    LET l == log.inner
        ipnft_uid == [ipnft_address |-> l.address, token_id |-> l.tokenId]
    IN CASE l.sig = "IPNFTMinted" ->
                <<[kind |-> "Minted", ipnft_uid |-> ipnft_uid,
                   initial_owner |-> l.owner, symbol |-> l.symbol]>>
         [] l.sig = "Transfer" /\ l.from = ZERO -> <<>>
         [] l.sig = "Transfer" /\ l.to = ZERO ->
                <<[kind |-> "Burnt", ipnft_uid |-> ipnft_uid,
                   former_owner |-> l.from]>>
         [] l.sig = "Transfer" ->
                <<[kind |-> "Transfer", ipnft_uid |-> ipnft_uid,
                   from |-> l.from, to |-> l.to]>>
         [] OTHER -> <<>>

TokenizerEventsOfLog(log) ==
    LET l == log.inner
    IN IF l.sig \in {"TokensCreated", "MoleculesCreated"}
       THEN <<[symbol |-> l.symbol, token_id |-> l.ipnftId,
               token_address |-> l.tokenContract,
               birth_block |-> log.block_number]>>
       ELSE <<>>

index_ipnft_and_tokenizer_contracts(from_block, to_block) ==
    LET logs == get_logs_ext({ipnft_contract_address, tokenizer_contract_address},
                             {"IPNFTMinted", "Transfer", "TokensCreated",
                              "MoleculesCreated"},
                             from_block, to_block)
    IN [ipnft_events |->
            Flatten([i \in DOMAIN logs |-> IpnftEventsOfLog(logs[i])]),
        tokenizer_events |->
            Flatten([i \in DOMAIN logs |-> TokenizerEventsOfLog(logs[i])])]

\* indexing, lines 316-336: insert the batch projection of a new IPNFT,
\* merge the batch projection of a known one.
IpnftStateMapAfterBatch(ipnft_state_map, projections) ==
    [uid \in DOMAIN ipnft_state_map \cup DOMAIN projections |->
        IF uid \notin DOMAIN projections THEN ipnft_state_map[uid]
        ELSE IF uid \notin DOMAIN ipnft_state_map
        THEN [ipnft |-> projections[uid], project |-> None, token |-> None]
        ELSE [ipnft_state_map[uid] EXCEPT
                !.ipnft = synchronize_ipnft_event_projections(@, projections[uid])]]

\* The callback of index_multisig_safes, log by log.
RECURSIVE MultisigAfterLogs(_, _)
MultisigAfterLogs(multisig, logs) ==
    IF logs = <<>> THEN multisig
    ELSE LET l == Head(logs).inner
             multisig_state == Unwrap(multisig[l.address])
             next ==
                IF l.sig = "AddedOwner"
                THEN [multisig_state EXCEPT !.current_owners = @ \cup {l.owner}]
                ELSE [multisig_state EXCEPT !.current_owners = @ \ {l.owner},
                                            !.former_owners = @ \cup {l.owner}]
         IN MultisigAfterLogs(MapInsert(multisig, l.address, Some(next)), Tail(logs))

\* index_multisig_safes without the fold of lines 597-607: the IPNFTs owned by
\* a changed multisig are not reported.
index_multisig_safes_changes_dropped(app_state, from_block, to_block) ==
    IF DOMAIN app_state.multisig = {}
    THEN [multisig |-> app_state.multisig, swept |-> FALSE,
          changed_ipnft_multisig_owners |-> EmptyMap]
    ELSE [multisig |->
            MultisigAfterLogs(app_state.multisig,
                get_logs_ext(DOMAIN app_state.multisig,
                             {"AddedOwner", "RemovedOwner"}, from_block, to_block)),
          swept |-> TRUE,
          changed_ipnft_multisig_owners |-> EmptyMap]

index_multisig_safes(app_state, from_block, to_block) ==
    LET multisigs == DOMAIN app_state.multisig
        logs == get_logs_ext(multisigs, {"AddedOwner", "RemovedOwner"},
                             from_block, to_block)
        changed_multisigs == {logs[i].inner.address : i \in DOMAIN logs}
        owned == {uid \in DOMAIN app_state.ipnft_state_map :
                    /\ IsSome(app_state.ipnft_state_map[uid].ipnft.current_owner)
                    /\ Unwrap(app_state.ipnft_state_map[uid].ipnft.current_owner)
                            \in changed_multisigs}
    IN IF multisigs = {}
       THEN [multisig |-> app_state.multisig, swept |-> FALSE,
             changed_ipnft_multisig_owners |-> EmptyMap]
       ELSE [multisig |-> MultisigAfterLogs(app_state.multisig, logs),
             swept |-> TRUE,
             changed_ipnft_multisig_owners |->
                [uid \in owned |->
                    Unwrap(app_state.ipnft_state_map[uid].ipnft.current_owner)]]

index_tokens(app_state, from_block, to_block) ==
    LET token_addresses == DOMAIN app_state.token_address_ipnft_uid_mapping
        logs == get_logs_ext(token_addresses, {"Transfer"}, from_block, to_block)
    IN IF token_addresses = {}
       THEN [events |-> <<>>, swept |-> FALSE]
       ELSE [events |-> [i \in DOMAIN logs |->
                            [token_address |-> logs[i].inner.address,
                             from  |-> logs[i].inner.from,
                             to    |-> logs[i].inner.to,
                             value |-> logs[i].inner.value]],
             swept |-> TRUE]

\* The find of lines 692-699 without the comparison of the symbols.
find_ipnft_state_by_token_id(ipnft_state_map, event) ==
    {uid \in DOMAIN ipnft_state_map : uid.token_id = event.token_id}

\* process_tokenizer_events, lines 692-699: the IpnftState the event is for.
find_ipnft_state(ipnft_state_map, event) ==
    {uid \in DOMAIN ipnft_state_map :
        /\ uid.token_id = event.token_id
        /\ ipnft_state_map[uid].ipnft.symbol = Some(event.symbol)}

\* process_tokenizer_events: [app_state, minimal_ipt_birth_block] after the
\* events, starting from minimal_birth_block.
RECURSIVE process_tokenizer_events_from(_, _, _)
process_tokenizer_events_from(app_state, minimal_birth_block, tokenizer_events) ==
    IF tokenizer_events = <<>>
    THEN [app_state |-> app_state, minimal_ipt_birth_block |-> minimal_birth_block]
    ELSE LET event == Head(tokenizer_events)
             found == find_ipnft_state(app_state.ipnft_state_map, event)
         IN IF found = {}
            THEN process_tokenizer_events_from(app_state, minimal_birth_block,
                                               Tail(tokenizer_events))
            ELSE LET ipnft_uid == CHOOSE uid \in found : TRUE
                     linked == [app_state EXCEPT
                        !.ipnft_state_map[ipnft_uid].token =
                            Some([token_address |-> event.token_address,
                                  holder_balances |-> EmptyMap]),
                        !.token_address_ipnft_uid_mapping =
                            MapInsert(@, event.token_address, ipnft_uid)]
                 IN process_tokenizer_events_from(
                        linked,
                        IF minimal_birth_block = 0 THEN event.birth_block
                        ELSE Min(minimal_birth_block, event.birth_block),
                        Tail(tokenizer_events))

process_tokenizer_events(app_state, tokenizer_events) ==
    process_tokenizer_events_from(app_state, 0, tokenizer_events)

\* U256 arithmetic (ruint), scaled to U256Bits bits: `-=` and `+=` without
\* overflow checks keep the low bits of the result.
U256Modulus == 2 ^ U256Bits

wrapping_sub(a, b) == (a - b) % U256Modulus

wrapping_add(a, b) == (a + b) % U256Modulus

\* process_token_transfer_events: [app_state, participating_holders_balances]
\* after the events. The balance of the receiver is reported under the key
\* event.from (line 788). `wrapped` collects the operators whose exact
\* result was outside U256: "sub" (line 769), "add" (line 783).
ChangedBalanceKeyOfReceiver(event) == event.from

TransferResult(app_state, participating, wrapped) ==
    [app_state |-> app_state, participating_holders_balances |-> participating,
     wrapped |-> wrapped]

\* Lines 779-793: the receiver's side of one event. `r` is the result so far,
\* with the sender's side of this event done.
TransferReceived(r, ipnft_uid, event) ==
    IF event.to = ZERO THEN r
    ELSE TransferResult(
            [r.app_state EXCEPT
                !.ipnft_state_map[ipnft_uid].token =
                    Some([Unwrap(@) EXCEPT !.holder_balances =
                        MapInsert(@, event.to,
                                  wrapping_add(MapGetOr(@, event.to, 0), event.value))])],
            MapInsert(r.participating_holders_balances, ipnft_uid,
                MapInsert(MapGetOr(r.participating_holders_balances, ipnft_uid, EmptyMap),
                          ChangedBalanceKeyOfReceiver(event),
                          wrapping_add(
                            MapGetOr(Unwrap(r.app_state.ipnft_state_map[ipnft_uid].token)
                                        .holder_balances, event.to, 0),
                            event.value))),
            IF MapGetOr(Unwrap(r.app_state.ipnft_state_map[ipnft_uid].token)
                            .holder_balances, event.to, 0) + event.value >= U256Modulus
            THEN r.wrapped \cup {"add"} ELSE r.wrapped)

\* Lines 765-777: the sender's side of one event.
TransferSent(r, ipnft_uid, event) ==
    IF event.from = ZERO THEN r
    ELSE TransferResult(
            [r.app_state EXCEPT
                !.ipnft_state_map[ipnft_uid].token =
                    Some([Unwrap(@) EXCEPT !.holder_balances =
                        MapInsert(@, event.from,
                                  wrapping_sub(MapGetOr(@, event.from, 0), event.value))])],
            MapInsert(r.participating_holders_balances, ipnft_uid,
                MapInsert(MapGetOr(r.participating_holders_balances, ipnft_uid, EmptyMap),
                          event.from,
                          wrapping_sub(
                            MapGetOr(Unwrap(r.app_state.ipnft_state_map[ipnft_uid].token)
                                        .holder_balances, event.from, 0),
                            event.value))),
            IF MapGetOr(Unwrap(r.app_state.ipnft_state_map[ipnft_uid].token)
                            .holder_balances, event.from, 0) < event.value
            THEN r.wrapped \cup {"sub"} ELSE r.wrapped)

RECURSIVE process_token_transfer_events_from(_, _)
process_token_transfer_events_from(r, events) ==
    IF events = <<>> THEN r
    ELSE IF Head(events).token_address
                \notin DOMAIN r.app_state.token_address_ipnft_uid_mapping
    THEN process_token_transfer_events_from(r, Tail(events))
    ELSE process_token_transfer_events_from(
            TransferReceived(
                TransferSent(
                    r,
                    r.app_state.token_address_ipnft_uid_mapping[Head(events).token_address],
                    Head(events)),
                r.app_state.token_address_ipnft_uid_mapping[Head(events).token_address],
                Head(events)),
            Tail(events))

process_token_transfer_events(app_state, events) ==
    process_token_transfer_events_from(TransferResult(app_state, EmptyMap, {}), events)

\* indexing, lines 366-402: the changes of the batch per IPNFT.
IpnftChangesOfBatch(projections, participating_holders_balances, changed_ipnft_multisig_owners) ==
    LET from_ipnft(uid) ==
            IF uid \notin DOMAIN projections THEN IpnftChangesDefault
            ELSE IF projections[uid].minted /\ projections[uid].burnt
            THEN [IpnftChangesDefault EXCEPT !.minted_and_burnt = TRUE]
            ELSE [IpnftChangesDefault EXCEPT
                    !.owner_changes.current_owner = projections[uid].current_owner,
                    !.owner_changes.former_owner = projections[uid].former_owner]
        from_tokens(uid) ==
            IF uid \notin DOMAIN participating_holders_balances
                \/ from_ipnft(uid).minted_and_burnt
            THEN from_ipnft(uid)
            ELSE [from_ipnft(uid) EXCEPT
                    !.holder_balances_changes = participating_holders_balances[uid]]
        from_multisig(uid) ==
            IF uid \in DOMAIN changed_ipnft_multisig_owners
                /\ ~IsSome(from_tokens(uid).owner_changes.current_owner)
            THEN [from_tokens(uid) EXCEPT
                    !.owner_changes.current_owner =
                        Some(changed_ipnft_multisig_owners[uid])]
            ELSE from_tokens(uid)
    IN [uid \in DOMAIN projections \cup DOMAIN participating_holders_balances
                \cup DOMAIN changed_ipnft_multisig_owners |-> from_multisig(uid)]

\* The first block of the token sweep (lines 354-358).
TokenSweepFrom_overlap(tokens_latest_indexed_block_number, minimal_ipt_birth_block) ==
    IF tokens_latest_indexed_block_number = 0
    THEN minimal_ipt_birth_block
    ELSE tokens_latest_indexed_block_number

TokenSweepFrom(tokens_latest_indexed_block_number, minimal_ipt_birth_block) ==
    IF tokens_latest_indexed_block_number = 0
    THEN minimal_ipt_birth_block
    ELSE tokens_latest_indexed_block_number + 1

\* indexing, line 348: the two contracts and the safes are swept.
latest_indexed_after_safes_deferred(app_state, to_block) == app_state

latest_indexed_after_safes(app_state, to_block) ==
    [app_state EXCEPT !.latest_indexed_block_number = to_block]

\* One call of get_logs_ext made by indexing.
Sweep(kind, from_block, to_block, addresses) ==
    [sweep |-> kind, from_block |-> from_block, to_block |-> to_block,
     addresses |-> addresses]

IndexingFailed(app_state, fail, sweeps) ==
    [app_state |-> app_state, failed |-> fail, sweeps |-> sweeps,
     ipnft_changes_map |-> EmptyMap]

\* indexing, lines 366-404: the response. `c` holds the values of the local
\* variables of indexing under their names.
indexing_response(c) ==
    [app_state |->
        [c.transfers.app_state EXCEPT
            !.tokens_latest_indexed_block_number = c.to_block],
     failed |-> "none",
     sweeps |-> c.sweeps,
     ipnft_changes_map |->
        IpnftChangesOfBatch(c.projections,
                            c.transfers.participating_holders_balances,
                            c.safes.changed_ipnft_multisig_owners)]

\* indexing, lines 359-362: the token sweep has returned.
indexing_tokens_swept(c) ==
    IF c.fail = "tokens_sweep" /\ c.tokens.swept
    THEN IndexingFailed(c.tokenizer.app_state, c.fail, c.sweeps)
    ELSE indexing_response(
            [c EXCEPT !.sweeps =
                IF c.tokens.swept
                THEN Append(@, Sweep("tokens", c.tokens_from, c.to_block,
                        DOMAIN c.tokenizer.app_state.token_address_ipnft_uid_mapping))
                ELSE @]
            @@ [transfers |->
                    process_token_transfer_events(c.tokenizer.app_state,
                                                  c.tokens.events)])

\* indexing, lines 354-359: the range of the token sweep.
indexing_tokens_from(c) ==
    indexing_tokens_swept(
        c @@ [tokens |-> index_tokens(c.tokenizer.app_state, c.tokens_from,
                                      c.to_block)])

\* indexing, lines 348-353: the safes sweep has returned.
indexing_tokenizer_events(c) ==
    indexing_tokens_from(
        c @@ [tokens_from |->
                TokenSweepFrom(
                    c.tokenizer.app_state.tokens_latest_indexed_block_number,
                    c.tokenizer.minimal_ipt_birth_block)])

indexing_safes_swept(c) ==
    IF c.fail = "safes_sweep" /\ c.safes.swept
    THEN IndexingFailed(c.projected, c.fail, c.sweeps)
    ELSE indexing_tokenizer_events(
            [c EXCEPT !.sweeps =
                IF c.safes.swept
                THEN Append(@, Sweep("safes", c.from_block, c.to_block,
                                     DOMAIN c.projected.multisig))
                ELSE @]
            @@ [tokenizer |->
                    process_tokenizer_events(
                        latest_indexed_after_safes(
                            [c.projected EXCEPT !.multisig = c.safes.multisig],
                            c.to_block),
                        c.contracts.tokenizer_events)])

\* indexing, lines 315-346: the projections are in ipnft_state_map.
indexing_projected(c) ==
    indexing_safes_swept(
        c @@ [safes |-> index_multisig_safes(c.projected, c.from_block, c.to_block)])

indexing_projections(c) ==
    indexing_projected(
        c @@ [projected |->
                [c.app_state EXCEPT
                    !.ipnft_state_map = IpnftStateMapAfterBatch(@, c.projections)]])

\* indexing, lines 305-314: the IPNFT/Tokenizer sweep has returned.
indexing_contracts_swept(c) ==
    indexing_projections(c @@ [projections |-> process(c.contracts.ipnft_events)])

\* indexing(app_state, to_block). `fail` names the sweep whose get_logs_ext
\* returns an error ("none": no error). The result holds app_state as the
\* call leaves it, the sweeps made and the ipnft_changes_map.
indexing(app_state, to_block, fail) ==
    IF fail = "contracts_sweep"
    THEN IndexingFailed(app_state, fail, <<>>)
    ELSE indexing_contracts_swept(
            [app_state |-> app_state, to_block |-> to_block, fail |-> fail,
             from_block |-> app_state.latest_indexed_block_number + 1,
             sweeps |-> <<Sweep("contracts",
                                app_state.latest_indexed_block_number + 1, to_block,
                                {ipnft_contract_address, tokenizer_contract_address})>>,
             contracts |->
                index_ipnft_and_tokenizer_contracts(
                    app_state.latest_indexed_block_number + 1, to_block)])

(***************************************************************************)
(* Catalogue sync: load_molecule_projects                                  *)
(***************************************************************************)
\* The filter_map of lines 1558-1575 with a file of unknown level taken as an
\* Admin file instead of being skipped.
build_added_file_entries_without_skip(added_entities, molecule_access_levels_map) ==
    [dataset_id \in DOMAIN added_entities |->
        [entry |-> added_entities[dataset_id],
         molecule_access_level |->
            MapGetOr(molecule_access_levels_map, dataset_id, "Admin")]]

build_added_file_entries_with_molecule_access_level_map(added_entities, molecule_access_levels_map) ==
    [dataset_id \in DOMAIN added_entities \cap DOMAIN molecule_access_levels_map |->
        [entry |-> added_entities[dataset_id],
         molecule_access_level |-> molecule_access_levels_map[dataset_id]]]

prepare_changes_based_on_changed_versioned_files_entries(versioned_files_entries, molecule_access_levels_map) ==
    {[dataset_id |-> d,
      change |-> [kind |-> "Added", level |-> molecule_access_levels_map[d]]] :
        d \in DOMAIN versioned_files_entries.added_entities
                \cap DOMAIN molecule_access_levels_map}
    \cup
    {[dataset_id |-> d, change |-> [kind |-> "Removed", level |-> "-"]] :
        d \in DOMAIN versioned_files_entries.removed_entities}

prepare_changes_based_on_changed_molecule_access_levels(project_actual_files_map, molecule_access_levels_map) ==
    {[dataset_id |-> d,
      change |-> [kind |-> "MoleculeAccessLevelChanged",
                  level |-> molecule_access_levels_map[d]]] :
        d \in {x \in DOMAIN project_actual_files_map \cap DOMAIN molecule_access_levels_map :
                project_actual_files_map[x].molecule_access_level
                    # molecule_access_levels_map[x]}}

\* Line 915: the files of actual_files_map that stay when the sync reports
\* removed_entities.
RetainedActualFiles(actual_files_map, removed_entities) ==
    DOMAIN actual_files_map \cap DOMAIN removed_entities

\* II. Process existing projects (lines 885-941), for one project.
ExistingProjectAfterSync(project, versioned_files_entries_map, molecule_access_levels_map) ==
    LET data_room == project.entry.data_room_dataset_id
    IN IF data_room \notin DOMAIN versioned_files_entries_map
       THEN [project |-> project, detected_changes |-> {}]
       ELSE
       LET versioned_files_entries == versioned_files_entries_map[data_room]
           changed_entries ==
                prepare_changes_based_on_changed_versioned_files_entries(
                    versioned_files_entries, molecule_access_levels_map)
           added_file_entries_map ==
                build_added_file_entries_with_molecule_access_level_map(
                    versioned_files_entries.added_entities,
                    molecule_access_levels_map)
           actual_files_map ==
                MapExtend(
                    MapOnly(project.actual_files_map,
                            RetainedActualFiles(project.actual_files_map,
                                versioned_files_entries.removed_entities)),
                    added_file_entries_map)
           changed_levels ==
                prepare_changes_based_on_changed_molecule_access_levels(
                    actual_files_map, molecule_access_levels_map)
       IN [project |->
                [project EXCEPT
                    !.actual_files_map = actual_files_map,
                    !.removed_files_map =
                        MapExtend(@, versioned_files_entries.removed_entities),
                    !.latest_data_room_offset =
                        versioned_files_entries.latest_data_room_offset],
           detected_changes |-> changed_entries \cup changed_levels]

\* III. Process new projects (lines 947-993), entry by entry.
RECURSIVE NewProjectsAfterSync(_, _, _, _, _)
NewProjectsAfterSync(ipnft_state_map, detected_changes_map, new_projects_entries, versioned_files_entries_map, molecule_access_levels_map) ==
    IF new_projects_entries = <<>>
    THEN [ipnft_state_map |-> ipnft_state_map,
          detected_changes_map |-> detected_changes_map]
    ELSE
    LET project_entry == Head(new_projects_entries)
        uid == project_entry.ipnft_uid
        data_room == project_entry.data_room_dataset_id
        rest == Tail(new_projects_entries)
    IN IF uid \notin DOMAIN ipnft_state_map
            \/ data_room \notin DOMAIN versioned_files_entries_map
       THEN NewProjectsAfterSync(ipnft_state_map, detected_changes_map, rest,
                                 versioned_files_entries_map,
                                 molecule_access_levels_map)
       ELSE
       LET versioned_files_entries == versioned_files_entries_map[data_room]
           detected_changes ==
                prepare_changes_based_on_changed_versioned_files_entries(
                    versioned_files_entries, molecule_access_levels_map)
           project ==
                [entry |-> project_entry,
                 latest_data_room_offset |->
                    versioned_files_entries.latest_data_room_offset,
                 actual_files_map |->
                    build_added_file_entries_with_molecule_access_level_map(
                        versioned_files_entries.added_entities,
                        molecule_access_levels_map),
                 removed_files_map |-> versioned_files_entries.removed_entities]
       IN NewProjectsAfterSync(
                [ipnft_state_map EXCEPT ![uid].project = Some(project)],
                IF detected_changes # {}
                THEN MapInsert(detected_changes_map, uid, detected_changes)
                ELSE detected_changes_map,
                rest,
                \* the entry of the data room is taken out of the map
                MapOnly(versioned_files_entries_map,
                        DOMAIN versioned_files_entries_map \ {data_room}),
                molecule_access_levels_map)

\* load_molecule_projects(app_state): app_state after the sync and the
\* changed files per IPNFT. `c` holds the values of the local variables of
\* load_molecule_projects under their names.
ProjectsOf(app_state) ==
    [uid \in {u \in DOMAIN app_state.ipnft_state_map :
                IsSome(app_state.ipnft_state_map[u].project)} |->
        Unwrap(app_state.ipnft_state_map[uid].project)]

\* Lines 995-997: the new projects are processed.
load_molecule_projects_response(c) ==
    [app_state |->
        [c.app_state EXCEPT
            !.ipnft_state_map = c.after_new.ipnft_state_map,
            !.projects_dataset_offset =
                IF c.new_projects_entries = <<>> THEN @
                ELSE Some(c.new_projects_entries[Len(c.new_projects_entries)].offset)],
     detected_changes_map |-> c.after_new.detected_changes_map]

\* Lines 943-993: the existing projects are processed.
load_molecule_projects_existing(c) ==
    load_molecule_projects_response(
        c @@ [after_new |->
            NewProjectsAfterSync(
                [uid \in DOMAIN c.app_state.ipnft_state_map |->
                    IF uid \in DOMAIN c.synced
                    THEN [c.app_state.ipnft_state_map[uid] EXCEPT
                            !.project = Some(c.synced[uid].project)]
                    ELSE c.app_state.ipnft_state_map[uid]],
                [uid \in {u \in DOMAIN c.synced :
                            c.synced[u].detected_changes # {}} |->
                    c.synced[uid].detected_changes],
                c.new_projects_entries,
                MapOnly(c.versioned_files_entries_map,
                        DOMAIN c.versioned_files_entries_map
                            \ {c.existing_projects[uid].entry.data_room_dataset_id :
                                    uid \in DOMAIN c.existing_projects}),
                c.molecule_access_levels_map)])

\* Lines 884-941: the access levels are known.
load_molecule_projects_levels(c) ==
    load_molecule_projects_existing(
        c @@ [synced |->
            [uid \in DOMAIN c.existing_projects |->
                ExistingProjectAfterSync(c.existing_projects[uid],
                                         c.versioned_files_entries_map,
                                         c.molecule_access_levels_map)]])

\* Lines 858-882: the data room entries are known.
load_molecule_projects_entries(c) ==
    load_molecule_projects_levels(
        c @@ [molecule_access_levels_map |->
            get_latest_molecule_access_levels_by_dataset_ids(
                UNION {DOMAIN c.versioned_files_entries_map[d].added_entities :
                            d \in DOMAIN c.versioned_files_entries_map}
                \cup UNION {DOMAIN c.existing_projects[uid].actual_files_map :
                            uid \in DOMAIN c.existing_projects})])

\* Lines 835-856: the new project entries are known.
load_molecule_projects_new_entries(c) ==
    load_molecule_projects_entries(
        c @@ [versioned_files_entries_map |->
            get_versioned_files_entries_by_data_rooms(
                {[dataset_id |-> c.new_projects_entries[i].data_room_dataset_id,
                  offset |-> 0] : i \in DOMAIN c.new_projects_entries}
                \cup
                {[dataset_id |-> c.existing_projects[uid].entry.data_room_dataset_id,
                  offset |-> c.existing_projects[uid].latest_data_room_offset + 1] :
                    uid \in DOMAIN c.existing_projects})])

load_molecule_projects(app_state) ==
    load_molecule_projects_new_entries(
        [app_state |-> app_state,
         existing_projects |-> ProjectsOf(app_state),
         new_projects_entries |->
            get_molecule_project_entries(
                IF IsSome(app_state.projects_dataset_offset)
                THEN Unwrap(app_state.projects_dataset_offset) + 1 ELSE 0)])

(***************************************************************************)
(* Reconciler                                                              *)
(***************************************************************************)
\* MultisigResolver::get_multisig_owners: the Safe oracle knows the current
\* owners of a Safe, and answers None for any other address.
get_multisig_owners(address) ==
    IF address \in Safes THEN Some(World.safe_owners[address]) ELSE None

\* get_owners(address, multisig, to_block): the owners and the multisig map
\* (the cache) after the call.
get_owners(address, multisig, to_block) ==
    IF address \in DOMAIN multisig
    THEN [current_owners |-> IF IsSome(multisig[address])
                             THEN Unwrap(multisig[address]).current_owners
                             ELSE {address},
          former_owners  |-> IF IsSome(multisig[address])
                             THEN Unwrap(multisig[address]).former_owners
                             ELSE {},
          multisig |-> multisig, resolved |-> FALSE]
    ELSE IF ~IsSome(get_multisig_owners(address))
    THEN [current_owners |-> {address}, former_owners |-> {},
          multisig |-> MapInsert(multisig, address, None), resolved |-> TRUE]
    ELSE LET multisig_owners_from_api == Unwrap(get_multisig_owners(address))
             logs == get_logs_ext({address}, {"RemovedOwner"}, 0, to_block)
             removed == {logs[i].inner.owner : i \in DOMAIN logs}
             new_multisig_state ==
                [current_owners |-> multisig_owners_from_api,
                 former_owners  |-> removed \ multisig_owners_from_api]
         IN [current_owners |-> new_multisig_state.current_owners,
             former_owners  |-> new_multisig_state.former_owners,
             multisig |-> MapInsert(multisig, address, Some(new_multisig_state)),
             resolved |-> TRUE]

account_access_sanity_checks_keeps_revoked_owners(current_owners, holders, revoke_access_accounts) ==
    [current_owners |-> current_owners,
     holders |-> holders \ current_owners,
     revoke_access_accounts |-> revoke_access_accounts \ (holders \ current_owners)]

account_access_sanity_checks(current_owners, holders, revoke_access_accounts) ==
    [current_owners |-> current_owners,
     holders |-> holders \ current_owners,
     revoke_access_accounts |->
        (revoke_access_accounts \ current_owners) \ (holders \ current_owners)]

\* The accounts by owner changes and holder balances, before and after the
\* sanity checks. Lines 1074-1108 with the changes of the batch, lines
\* 1433-1465 with the state of the IPNFT.
OwnersOf(maybe_address, multisig, to_block) ==
    IF IsSome(maybe_address)
    THEN get_owners(Unwrap(maybe_address), multisig, to_block)
    ELSE [current_owners |-> {}, former_owners |-> {},
          multisig |-> multisig, resolved |-> FALSE]

CheckedAccounts(unchecked, checked, multisig, resolved) ==
    [current_owners |-> checked.current_owners,
     holders |-> checked.holders,
     revoke_access_accounts |-> checked.revoke_access_accounts,
     unchecked |-> unchecked,
     multisig |-> multisig,
     resolved |-> resolved]

UncheckedAccounts(unchecked, multisig, resolved) ==
    CheckedAccounts(
        unchecked,
        account_access_sanity_checks(unchecked.current_owners, unchecked.holders,
                                     unchecked.revoke_access_accounts),
        multisig, resolved)

ClassifiedOwners(of_current, of_former, holder_balances) ==
    UncheckedAccounts(
        [current_owners |-> of_current.current_owners,
         holders |-> {h \in DOMAIN holder_balances :
                        holder_balances[h] > IPT_ACCESS_THRESHOLD},
         revoke_access_accounts |->
            of_current.former_owners \cup of_former.current_owners
                \cup of_former.former_owners
                \cup {h \in DOMAIN holder_balances :
                        ~(holder_balances[h] > IPT_ACCESS_THRESHOLD)}],
        of_former.multisig,
        of_current.resolved \/ of_former.resolved)

ClassifiedCurrentOwner(of_current, former_owner, holder_balances, to_block) ==
    ClassifiedOwners(of_current,
                     OwnersOf(former_owner, of_current.multisig, to_block),
                     holder_balances)

ClassifiedAccounts(current_owner, former_owner, holder_balances, multisig, to_block) ==
    ClassifiedCurrentOwner(OwnersOf(current_owner, multisig, to_block),
                           former_owner, holder_balances, to_block)

\* get_accounts_by_ipnft_state without the loop over token.holder_balances
\* (lines 1455-1463).
get_accounts_by_ipnft_state_without_holders(ipnft_state, multisig, to_block) ==
    ClassifiedAccounts(
        ipnft_state.ipnft.current_owner, ipnft_state.ipnft.former_owner,
        EmptyMap, multisig, to_block)

get_accounts_by_ipnft_state(ipnft_state, multisig, to_block) ==
    ClassifiedAccounts(
        ipnft_state.ipnft.current_owner, ipnft_state.ipnft.former_owner,
        IF IsSome(ipnft_state.token)
        THEN Unwrap(ipnft_state.token).holder_balances ELSE EmptyMap,
        multisig, to_block)

\* get_caip2 that also knows the Goerli test network.
get_caip2_with_goerli(id) ==
    CASE id = 1 -> Some("eip155:1")
      [] id = 5 -> Some("eip155:5")
      [] id = 11155111 -> Some("eip155:11155111")
      [] OTHER -> None

\* DidPhk::new_from_chain_id and its Display form.
get_caip2(id) ==
    CASE id = 1 -> Some("eip155:1")
      [] id = 11155111 -> Some("eip155:11155111")
      [] OTHER -> None

create_did_phk(address) ==
    <<"did:pkh", Unwrap(get_caip2(chain_id)), address>>

create_did_pkh_accounts(accounts) ==
    [current_owners_did_pkhs |-> {create_did_phk(a) : a \in accounts.current_owners},
     holders_did_pkhs |-> {create_did_phk(a) : a \in accounts.holders},
     revoke_access_accounts_did_pkh |->
        {create_did_phk(a) : a \in accounts.revoke_access_accounts}]

AllAccounts(did_pkhs) ==
    did_pkhs.current_owners_did_pkhs \cup did_pkhs.holders_did_pkhs
        \cup did_pkhs.revoke_access_accounts_did_pkh

\* "owner" for Admin | Admin2, "holder" for Public | Holder.
partition_dataset_id_by_molecule_access_level(molecule_access_level) ==
    IF molecule_access_level \in {"Public", "Holder"} THEN "holder" ELSE "owner"

ProjectDatasetIdsDefault ==
    [core_file_dataset_ids |-> {}, owner_file_dataset_ids |-> {},
     holder_file_dataset_ids |-> {}, removed_file_dataset_ids |-> {}]

get_project_dataset_ids(project) ==
    [core_file_dataset_ids |->
        {project.entry.data_room_dataset_id, project.entry.announcements_dataset_id},
     owner_file_dataset_ids |->
        {d \in DOMAIN project.actual_files_map :
            partition_dataset_id_by_molecule_access_level(
                project.actual_files_map[d].molecule_access_level) = "owner"},
     holder_file_dataset_ids |->
        {d \in DOMAIN project.actual_files_map :
            partition_dataset_id_by_molecule_access_level(
                project.actual_files_map[d].molecule_access_level) = "holder"},
     removed_file_dataset_ids |-> DOMAIN project.removed_files_map]

\* The datasets of the changed files (lines 1157-1183).
ChangedProjectDatasetIds(changed_files) ==
    LET to_class(class) ==
            {c.dataset_id : c \in
                {x \in changed_files :
                    /\ x.change.kind \in {"Added", "MoleculeAccessLevelChanged"}
                    /\ partition_dataset_id_by_molecule_access_level(x.change.level)
                            = class}}
    IN [core_file_dataset_ids |-> {},
        owner_file_dataset_ids |-> to_class("owner"),
        holder_file_dataset_ids |-> to_class("holder"),
        removed_file_dataset_ids |->
            {c.dataset_id : c \in {x \in changed_files : x.change.kind = "Removed"}}]

Operations(accounts, datasets, operation) ==
    {[account_id |-> a, operation |-> operation, dataset_id |-> d] :
        a \in accounts, d \in datasets}

\* build_operations: the operations in the order of the four dataset groups.
build_operations(project_dataset_ids, did_pkhs) ==
    LET owners  == did_pkhs.current_owners_did_pkhs
        holders == did_pkhs.holders_did_pkhs
        revoke  == did_pkhs.revoke_access_accounts_did_pkh
        core    == project_dataset_ids.core_file_dataset_ids
        owner_files   == project_dataset_ids.owner_file_dataset_ids
        holder_files  == project_dataset_ids.holder_file_dataset_ids
        removed_files == project_dataset_ids.removed_file_dataset_ids
    IN SetToSeq(Operations(owners, core, "Set(Maintainer)")
                \cup Operations(holders, core, "Set(Reader)")
                \cup Operations(revoke, core, "Unset"))
       \o SetToSeq(Operations(owners, owner_files, "Set(Maintainer)")
                \cup Operations(holders, owner_files, "Unset")
                \cup Operations(revoke, owner_files, "Unset"))
       \o SetToSeq(Operations(owners, holder_files, "Set(Maintainer)")
                \cup Operations(holders, holder_files, "Set(Reader)")
                \cup Operations(revoke, holder_files, "Unset"))
       \o SetToSeq(Operations(owners \cup holders \cup revoke, removed_files, "Unset"))

(***************************************************************************)
(* Applier: the Kamu Node's accounts and account/dataset relations         *)
(***************************************************************************)
DownstreamEmpty == [accounts |-> {}, relations |-> {}]

RelationsAfterOperation(relations, op) ==
    LET others == {r \in relations :
                    ~(r.account_id = op.account_id /\ r.dataset_id = op.dataset_id)}
    IN CASE op.operation = "Set(Maintainer)" ->
                others \cup {[account_id |-> op.account_id,
                              dataset_id |-> op.dataset_id, role |-> "Maintainer"]}
         [] op.operation = "Set(Reader)" ->
                others \cup {[account_id |-> op.account_id,
                              dataset_id |-> op.dataset_id, role |-> "Reader"]}
         [] OTHER -> others

RECURSIVE RelationsAfterOperations(_, _)
RelationsAfterOperations(relations, operations) ==
    IF operations = <<>> THEN relations
    ELSE RelationsAfterOperations(
            RelationsAfterOperation(relations, Head(operations)), Tail(operations))

create_wallet_accounts(node, did_pkhs) ==
    [node EXCEPT !.accounts = @ \cup did_pkhs]

apply_account_dataset_relations(node, operations) ==
    [node EXCEPT !.relations = RelationsAfterOperations(@, operations)]

(***************************************************************************)
(* Reconciler: operations per IPNFT                                        *)
(***************************************************************************)
Classification(kind, accounts) ==
    [kind |-> kind,
     current_owners |-> accounts.current_owners,
     holders |-> accounts.holders,
     revoke_access_accounts |-> accounts.revoke_access_accounts,
     unchecked |-> accounts.unchecked]

NoOperations(multisig, node) ==
    [operations |-> <<>>, multisig |-> multisig, node |-> node, failed |-> "none",
     classifications |-> {}, built |-> FALSE, removed_at_build |-> {}]

OperationsFailed(fail, multisig, node, classifications) ==
    [NoOperations(multisig, node) EXCEPT
        !.failed = fail, !.classifications = classifications]

OperationsBuilt(operations, multisig, node, classifications, project) ==
    [operations |-> operations, multisig |-> multisig, node |-> node,
     failed |-> "none", classifications |-> classifications, built |-> TRUE,
     removed_at_build |-> DOMAIN project.removed_files_map]

\* interval_access_applying_for_ipnft, lines 1141-1202: the project's
\* changes. `c` holds the values of the local variables under their names.
interval_project_changes(c) ==
    IF c.fail = "resolver" /\ c.full.resolved
    THEN OperationsFailed(c.fail, c.delta.multisig, c.created,
                          {Classification("delta", c.delta)})
    ELSE OperationsBuilt(
            c.blockchain_based_operations
                \o build_operations(
                        ChangedProjectDatasetIds(c.ipnft_change.changed_files),
                        create_did_pkh_accounts(c.full)),
            c.full.multisig, c.created,
            {Classification("delta", c.delta), Classification("state", c.full)},
            c.project)

\* Lines 1110-1139: the accounts of the batch are created.
interval_blockchain_operations(c) ==
    IF c.ipnft_change.changed_files = {}
    THEN OperationsBuilt(c.blockchain_based_operations, c.delta.multisig,
                         c.created, {Classification("delta", c.delta)}, c.project)
    ELSE interval_project_changes(
            c @@ [full |-> get_accounts_by_ipnft_state(c.ipnft_state,
                                                       c.delta.multisig,
                                                       c.to_block)])

interval_accounts(c) ==
    interval_blockchain_operations(
        c @@ [created |->
                create_wallet_accounts(c.node, AllAccounts(c.delta_did_pkhs)),
              blockchain_based_operations |->
                build_operations(get_project_dataset_ids(c.project),
                                 c.delta_did_pkhs)])

\* Lines 1072-1108: the accounts of the batch are classified.
interval_classified(c) ==
    CASE c.fail = "resolver" /\ c.delta.resolved ->
            OperationsFailed(c.fail, c.multisig, c.node, {})
      [] c.fail = "create_accounts" ->
            OperationsFailed(c.fail, c.delta.multisig, c.node,
                             {Classification("delta", c.delta)})
      [] OTHER ->
            interval_accounts(
                c @@ [delta_did_pkhs |-> create_did_pkh_accounts(c.delta)])

\* interval_access_applying_for_ipnft. `fail` names the call that returns an
\* error: "resolver" (get_owners) or "create_accounts".
interval_access_applying_for_ipnft(ipnft_state, ipnft_change, multisig, to_block, node, fail) ==
    IF ipnft_change.minted_and_burnt \/ ~IsSome(ipnft_state.project)
    THEN NoOperations(multisig, node)
    ELSE interval_classified(
            [ipnft_state |-> ipnft_state, ipnft_change |-> ipnft_change,
             multisig |-> multisig, to_block |-> to_block, node |-> node,
             fail |-> fail,
             project |-> Unwrap(ipnft_state.project),
             delta |-> ClassifiedAccounts(
                            ipnft_change.owner_changes.current_owner,
                            ipnft_change.owner_changes.former_owner,
                            ipnft_change.holder_balances_changes,
                            multisig, to_block)])

\* initial_access_applying_for_ipnft, lines 1252-1297.
initial_accounts(project, full, did_pkhs, node) ==
    OperationsBuilt(
        build_operations(get_project_dataset_ids(project), did_pkhs),
        full.multisig,
        create_wallet_accounts(node, AllAccounts(did_pkhs)),
        {Classification("state", full)},
        project)

initial_classified(project, full, multisig, node, fail) ==
    CASE fail = "resolver" /\ full.resolved ->
            OperationsFailed(fail, multisig, node, {})
      [] fail = "create_accounts" ->
            OperationsFailed(fail, full.multisig, node,
                             {Classification("state", full)})
      [] OTHER ->
            initial_accounts(project, full, create_did_pkh_accounts(full), node)

\* initial_access_applying_for_ipnft.
initial_access_applying_for_ipnft(ipnft_state, multisig, to_block, node, fail) ==
    IF ipnft_state.ipnft.burnt \/ ~IsSome(ipnft_state.project)
    THEN NoOperations(multisig, node)
    ELSE initial_classified(
            Unwrap(ipnft_state.project),
            get_accounts_by_ipnft_state(ipnft_state, multisig, to_block),
            multisig, node, fail)

\* The loops of interval_access_applying and initial_access_applying over
\* the IPNFTs `uids` (a sequence): the audit entry, then
\* apply_account_dataset_relations, which `fail` = "apply" makes fail.
OperationsForIpnft(kind, app_state, ipnft_changes_map, ipnft_uid, to_block, node, fail) ==
    IF kind = "interval"
    THEN interval_access_applying_for_ipnft(
            app_state.ipnft_state_map[ipnft_uid], ipnft_changes_map[ipnft_uid],
            app_state.multisig, to_block, node, fail)
    ELSE initial_access_applying_for_ipnft(
            app_state.ipnft_state_map[ipnft_uid], app_state.multisig, to_block,
            node, fail)

\* An audit that records only the operations that change the node.
Audited_only_node_changes(kind, app_state, ipnft_uid, r) ==
    [app_state EXCEPT
        !.multisig = r.multisig,
        !.access_changes =
            IF apply_account_dataset_relations(r.node, r.operations) # r.node
            THEN Append(@, [reason |-> <<ipnft_uid, kind>>,
                            operations |-> r.operations])
            ELSE @]

\* The audit entry of lines 1029-1040 and 1222-1230.
Audited(kind, app_state, ipnft_uid, r) ==
    [app_state EXCEPT
        !.multisig = r.multisig,
        !.access_changes =
            IF r.operations # <<>>
            THEN Append(@, [reason |-> <<ipnft_uid, kind>>,
                            operations |-> r.operations])
            ELSE @]

Applied(acc, ipnft_uid, r, fail) ==
    [acc EXCEPT
        !.node = IF r.failed # "none" \/ fail = "apply" THEN r.node
                 ELSE apply_account_dataset_relations(r.node, r.operations),
        !.failed = IF r.failed = "none" /\ fail = "apply" THEN "apply" ELSE r.failed,
        !.emitted = IF r.built
                    THEN Append(@, [ipnft_uid |-> ipnft_uid,
                                    operations |-> r.operations,
                                    removed_at_build |-> r.removed_at_build])
                    ELSE @,
        !.classifications = @ \cup r.classifications]

RECURSIVE access_applying(_, _, _, _, _, _, _)
access_applying_for_ipnft(kind, app_state, ipnft_changes_map, uids, to_block, acc, fail, r) ==
    access_applying(kind, Audited(kind, app_state, Head(uids), r),
                    ipnft_changes_map, Tail(uids), to_block,
                    Applied(acc, Head(uids), r, fail), fail)

access_applying(kind, app_state, ipnft_changes_map, uids, to_block, acc, fail) ==
    IF uids = <<>> \/ acc.failed # "none"
    THEN [acc EXCEPT !.app_state = app_state]
    ELSE access_applying_for_ipnft(
            kind, app_state, ipnft_changes_map, uids, to_block, acc, fail,
            OperationsForIpnft(kind, app_state, ipnft_changes_map, Head(uids),
                               to_block, acc.node, fail))

ApplyingStart(node) ==
    [app_state |-> AppStateDefault, node |-> node, failed |-> "none",
     emitted |-> <<>>, classifications |-> {}]

interval_access_applying(app_state, ipnft_changes_map, to_block, node, fail) ==
    access_applying("interval", app_state, ipnft_changes_map,
                    SetToSeq(DOMAIN ipnft_changes_map), to_block,
                    ApplyingStart(node), fail)

initial_access_applying(app_state, node, fail) ==
    access_applying("initial", app_state, EmptyMap,
                    SetToSeq(DOMAIN app_state.ipnft_state_map),
                    app_state.latest_indexed_block_number,
                    ApplyingStart(node), fail)

(***************************************************************************)
(* Loop Controller: init, update, main                                     *)
(***************************************************************************)
HandlerResult(app_state, node, failed, idx, applied, synced) ==
    [app_state |-> app_state, node |-> node, failed |-> failed,
     skipped |-> FALSE,
     indexed |-> idx,
     sweeps |-> idx.sweeps,
     ipnft_changes_map |-> idx.ipnft_changes_map,
     emitted |-> applied.emitted,
     classifications |-> applied.classifications,
     catalogue_synced |-> synced]

NotIndexed(app_state) ==
    [app_state |-> app_state, failed |-> "none", sweeps |-> <<>>,
     ipnft_changes_map |-> EmptyMap]

HandlerFailed(node, failed, idx) ==
    HandlerResult(idx.app_state, node, failed, idx, ApplyingStart(node), FALSE)

HandlerApplied(idx, applied, ipnft_changes_map, synced) ==
    [HandlerResult(applied.app_state, applied.node, applied.failed, idx,
                   applied, synced)
        EXCEPT !.ipnft_changes_map = ipnft_changes_map]

\* init_state, line 224: indexing starts at the older contract's birth.
SeededAppState ==
    [AppStateDefault EXCEPT
        !.latest_indexed_block_number =
            Min(ipnft_contract_birth_block, tokenizer_contract_birth_block) - 1]

\* init, line 218: initial_access_applying on the loaded state.
init_loaded(node, fail, idx, loaded) ==
    HandlerApplied(idx, initial_access_applying(loaded.app_state, node, fail),
                   idx.ipnft_changes_map, TRUE)

\* init_state, lines 236-237: the catalogue is loaded after indexing.
init_indexed(node, fail, idx) ==
    CASE idx.failed # "none" -> HandlerFailed(node, idx.failed, idx)
      [] fail = "catalogue" -> HandlerFailed(node, fail, idx)
      [] OTHER -> init_loaded(node, fail, idx,
                              load_molecule_projects(idx.app_state))

\* init_state, then initial_access_applying, on a fresh AppState. `fail`
\* names the step that returns an error ("none": no error).
init(node, fail) ==
    IF fail = "finalized"
    THEN HandlerFailed(node, fail, NotIndexed(AppStateDefault))
    ELSE init_indexed(node, fail,
                      indexing(SeededAppState, latest_finalized_block_number, fail))

\* update, lines 281-284: the changed files of the sync enter the map.
MergedChanges(ipnft_changes_map, versioned_file_changes_per_projects) ==
    [uid \in DOMAIN ipnft_changes_map \cup DOMAIN versioned_file_changes_per_projects |->
        IF uid \in DOMAIN versioned_file_changes_per_projects
        THEN [MapGetOr(ipnft_changes_map, uid, IpnftChangesDefault) EXCEPT
                !.changed_files = versioned_file_changes_per_projects[uid]]
        ELSE ipnft_changes_map[uid]]

\* update, lines 287-293: interval_access_applying with the merged map and
\* with next_block_for_indexing as its to_block.
update_merged(app_state, ipnft_changes_map, next_block_for_indexing, node, fail, idx, due) ==
    HandlerApplied(idx,
                   interval_access_applying(app_state, ipnft_changes_map,
                                            next_block_for_indexing, node, fail),
                   ipnft_changes_map, due)

\* update, lines 276-285: the catalogue has been loaded.
update_loaded(next_block_for_indexing, node, fail, idx, loaded) ==
    update_merged(
        [loaded.app_state EXCEPT !.molecule_projects_last_requested_at = Some("now")],
        MergedChanges(idx.ipnft_changes_map, loaded.detected_changes_map),
        next_block_for_indexing, node, fail, idx, TRUE)

\* update, lines 262-275: the catalogue is loaded when the interval elapsed.
update_indexed(next_block_for_indexing, node, fail, due, idx) ==
    CASE idx.failed # "none" -> HandlerFailed(node, idx.failed, idx)
      [] fail = "clock" /\ IsSome(idx.app_state.molecule_projects_last_requested_at) ->
            HandlerFailed(node, fail, idx)
      [] fail = "catalogue" /\ due -> HandlerFailed(node, fail, idx)
      [] due -> update_loaded(next_block_for_indexing, node, fail, idx,
                              load_molecule_projects(idx.app_state))
      [] OTHER -> update_merged(idx.app_state, idx.ipnft_changes_map,
                                next_block_for_indexing, node, fail, idx, FALSE)

\* update that skips only when no block is new (`<` at line 256).
update_on_one_new_block(app_state, node, fail, due) ==
    CASE fail = "finalized" -> HandlerFailed(node, fail, NotIndexed(app_state))
      [] latest_finalized_block_number < app_state.latest_indexed_block_number + 1 ->
            [HandlerFailed(node, "none", NotIndexed(app_state))
                EXCEPT !.skipped = TRUE]
      [] OTHER ->
            update_indexed(app_state.latest_indexed_block_number + 1, node, fail, due,
                           indexing(app_state, latest_finalized_block_number, fail))

\* update on the shared AppState. `due` says whether the catalogue interval
\* has elapsed.
update(app_state, node, fail, due) ==
    CASE fail = "finalized" -> HandlerFailed(node, fail, NotIndexed(app_state))
      [] latest_finalized_block_number <= app_state.latest_indexed_block_number + 1 ->
            [HandlerFailed(node, "none", NotIndexed(app_state))
                EXCEPT !.skipped = TRUE]
      [] OTHER ->
            update_indexed(app_state.latest_indexed_block_number + 1, node, fail, due,
                           indexing(app_state, latest_finalized_block_number, fail))

Failures ==
    {"finalized", "contracts_sweep", "safes_sweep", "tokens_sweep", "clock",
     "catalogue", "resolver", "create_accounts", "apply"}

\* main, lines 196-209, and main_async: where the process stands after a
\* call of init or update returned.
main_after_call_keeps_looping(failed) == "loop"

main_after_call(failed) == IF failed = "none" THEN "loop" ELSE "exited"

\* state: Arc<RwLock<AppState>> (line 41) with nobody holding it, and a reader
\* that has not asked yet. `before` is the AppState the writer started from,
\* `boundary` the AppState the last returned call of init or update left.
RwFree ==
    [write_locked |-> FALSE, due |-> FALSE, at |-> 0,
     before |-> AppStateDefault, boundary |-> AppStateDefault, snapshot |-> None]

\* No component is observed on its own.
UnitNone == [call |-> "none"]

\* No call of process_token_transfer_events is observed on its own.
BatchNone ==
    [events |-> <<>>, outcome |-> "none", before |-> EmptyMap,
     participating_holders_balances |-> EmptyMap, wrapped |-> {},
     issued |-> 0, redeemed |-> 0, batches |-> 0]

IterationNone ==
    [call |-> "none", skipped |-> FALSE, failed |-> "none",
     latest_before |-> 0, tokens_latest_before |-> 0, to_block |-> 0,
     latest_after_indexing |-> 0, tokens_latest_after_indexing |-> 0,
     ipnft_changes_map |-> EmptyMap, emitted |-> <<>>, classifications |-> {},
     catalogue_synced |-> FALSE, catalogue_seen |-> 0,
     projects_before |-> EmptyMap, multisig_before |-> {}]

Iteration(call, before, r) ==
    [call |-> call, skipped |-> r.skipped, failed |-> r.failed,
     latest_before |-> before.latest_indexed_block_number,
     tokens_latest_before |-> before.tokens_latest_indexed_block_number,
     to_block |-> latest_finalized_block_number,
     latest_after_indexing |-> r.indexed.app_state.latest_indexed_block_number,
     tokens_latest_after_indexing |->
        r.indexed.app_state.tokens_latest_indexed_block_number,
     ipnft_changes_map |-> r.ipnft_changes_map,
     emitted |-> r.emitted,
     classifications |-> r.classifications,
     catalogue_synced |-> r.catalogue_synced,
     catalogue_seen |-> CatalogueChangeCount,
     projects_before |-> ProjectsOf(before),
     multisig_before |-> DOMAIN before.multisig]

History(r) ==
    [sweeps |-> hist.sweeps \o r.sweeps,
     minted_and_burnt |-> hist.minted_and_burnt \cup
        {uid \in DOMAIN r.ipnft_changes_map :
            r.ipnft_changes_map[uid].minted_and_burnt}]

AppInit ==
    /\ fetch = None
    /\ chain = <<>>
    /\ catalogue = [projects |-> <<>>, data_rooms |-> EmptyMap,
                    access_levels |-> EmptyMap, level_writes |-> 0]
    /\ downstream = DownstreamEmpty
    /\ pc = "init"
    /\ state = AppStateDefault
    /\ iter = IterationNone
    /\ hist = [sweeps |-> <<>>, minted_and_burnt |-> {}]
    /\ processed = BatchNone
    /\ rw = RwFree
    /\ unit = UnitNone

\* main, lines 196-209: the call of init or update has returned `r`. The
\* state that init built is shared only when init succeeded; update works
\* on the shared state.
Returned(call, before, fail, r) ==
    /\ r.failed = fail
    /\ state' = IF call = "init" /\ r.failed # "none" THEN state ELSE r.app_state
    /\ downstream' = r.node
    /\ pc' = main_after_call(r.failed)
    /\ iter' = Iteration(call, before, r)
    /\ hist' = History(r)

\* main calls init once the contracts' birth blocks are finalized.
Init_(fail) ==
    /\ pc = "init"
    /\ latest_finalized_block_number
            >= Min(ipnft_contract_birth_block, tokenizer_contract_birth_block)
    /\ Returned("init", SeededAppState, fail, init(downstream, fail))
    /\ UNCHANGED <<fetch, chain, catalogue, processed, rw, unit>>

Update(fail, due) ==
    /\ pc = "loop"
    /\ Returned("update", state, fail, update(state, downstream, fail, due))
    /\ UNCHANGED <<fetch, chain, catalogue, processed, rw, unit>>

(***************************************************************************)
(* The environment: the chain finalizes blocks, the catalogue is written   *)
(***************************************************************************)
FinalizeBlock(transaction) ==
    /\ pc # "exited"
    /\ Len(chain) < MaxBlock
    /\ transaction # <<>> => TransactionCount < MaxTransactions
    /\ chain' = Append(chain, transaction)
    /\ UNCHANGED <<fetch, catalogue, downstream, pc, state, iter, hist, processed, rw, unit>>

CatalogueWritable ==
    /\ pc # "exited"
    /\ CatalogueChangeCount < MaxCatalogueChanges

AddProject(row) ==
    /\ CatalogueWritable
    /\ catalogue' = [catalogue EXCEPT
            !.projects = Append(@, row),
            !.data_rooms = MapInsert(@, row.data_room_dataset_id, <<>>)]
    /\ UNCHANGED <<fetch, chain, downstream, pc, state, iter, hist, processed, rw, unit>>

\* A data room row; a file linked for the first time may come with the
\* first entry of its own dataset, which carries its access level.
WriteDataRoom(data_room, row, first_level) ==
    /\ CatalogueWritable
    /\ IsSome(first_level) =>
            row.op = "Append" /\ row.ref \notin DOMAIN catalogue.access_levels
    /\ catalogue' = [catalogue EXCEPT
            !.data_rooms[data_room] = Append(@, row),
            !.access_levels =
                IF IsSome(first_level)
                THEN MapInsert(@, row.ref, Unwrap(first_level)) ELSE @]
    /\ UNCHANGED <<fetch, chain, downstream, pc, state, iter, hist, processed, rw, unit>>

WriteAccessLevel(file, level) ==
    /\ CatalogueWritable
    /\ MapGetOr(catalogue.access_levels, file, "-") # level
    /\ catalogue' = [catalogue EXCEPT
            !.access_levels = MapInsert(@, file, level),
            !.level_writes = @ + 1]
    /\ UNCHANGED <<fetch, chain, downstream, pc, state, iter, hist, processed, rw, unit>>

Next ==
    \/ \E fail \in Failures \cup {"none"} : Init_(fail)
    \/ \E fail \in Failures \cup {"none"}, due \in BOOLEAN : Update(fail, due)
    \/ \E transaction \in Transactions(World) \cup {<<>>} : FinalizeBlock(transaction)
    \/ \E row \in ProjectRowsToAdd : AddProject(row)
    \/ \E data_room \in DOMAIN catalogue.data_rooms :
        \E row \in DataRoomRowsToAdd(data_room),
           first_level \in {None} \cup {Some(l) : l \in WrittenAccessLevels} :
            WriteDataRoom(data_room, row, first_level)
    \/ \E file \in Files, level \in WrittenAccessLevels : WriteAccessLevel(file, level)

Spec == AppInit /\ [][Next]_vars

(***************************************************************************)
(* process_token_transfer_events on its own                                *)
(***************************************************************************)
MaxBatches == 2             \* calls of process_token_transfer_events
MaxBatchLen == 2            \* events of one call
MaxTransferValue == 2       \* the value of one Transfer event

\* AppState as process_tokenizer_events leaves it when the first batch holds
\* the mint of IPNFT 1 and its tokenization as token t1.
TokenizedAppState ==
    process_tokenizer_events(
        [AppStateDefault EXCEPT
            !.ipnft_state_map =
                IpnftStateMapAfterBatch(EmptyMap,
                    process(<<[kind |-> "Minted", ipnft_uid |-> IpnftUid(1),
                               initial_owner |-> "e1", symbol |-> SymbolOf(1)]>>))],
        <<[symbol |-> SymbolOf(1), token_id |-> 1, token_address |-> "t1",
           birth_block |-> 1]>>).app_state

\* The Transfer events index_tokens can hand over: of the tracked token, and
\* one of a token that has no IPNFT.
TransferEvents ==
    {[token_address |-> "t1", from |-> from, to |-> to, value |-> value] :
        from \in Wallets \cup {ZERO}, to \in Wallets \cup {ZERO},
        value \in 1..MaxTransferValue}
    \cup {[token_address |-> "untracked", from |-> ZERO, to |-> "e1", value |-> 1]}

TransferBatches ==
    UNION {[1..n -> TransferEvents] : n \in 1..MaxBatchLen}

RECURSIVE SumOfValues(_)
SumOfValues(events) ==
    IF events = <<>> THEN 0 ELSE Head(events).value + SumOfValues(Tail(events))

TrackedTransfers(events) ==
    SelectSeq(events, LAMBDA e : e.token_address \in DOMAIN state.token_address_ipnft_uid_mapping)

HolderBalancesOf(app_state, ipnft_uid) ==
    Unwrap(app_state.ipnft_state_map[ipnft_uid].token).holder_balances

\* The call returned `r`, or, when an operator wrapped in a build with
\* overflow checks, panicked.
TransfersReturned(events, overflow_checks, r) ==
    /\ overflow_checks => r.wrapped # {}
    /\ state' = IF overflow_checks THEN state ELSE r.app_state
    /\ pc' = IF overflow_checks THEN "panicked" ELSE pc
    /\ processed' =
        [events |-> events,
         outcome |-> IF overflow_checks THEN "panicked" ELSE "ok",
         before |-> HolderBalancesOf(state, IpnftUid(1)),
         participating_holders_balances |-> r.participating_holders_balances,
         wrapped |-> r.wrapped,
         issued |-> processed.issued
            + SumOfValues(SelectSeq(TrackedTransfers(events), LAMBDA e : e.from = ZERO)),
         redeemed |-> processed.redeemed
            + SumOfValues(SelectSeq(TrackedTransfers(events), LAMBDA e : e.to = ZERO)),
         batches |-> processed.batches + 1]

ProcessTokenTransferEvents(events, overflow_checks) ==
    /\ pc = "transfers"
    /\ processed.batches < MaxBatches
    /\ TransfersReturned(events, overflow_checks,
                         process_token_transfer_events(state, events))
    /\ UNCHANGED <<fetch, chain, catalogue, downstream, iter, hist, rw, unit>>

NextTransfers ==
    \E events \in TransferBatches, overflow_checks \in BOOLEAN :
        ProcessTokenTransferEvents(events, overflow_checks)

InitTransfers ==
    /\ fetch = None
    /\ chain = <<>>
    /\ catalogue = [projects |-> <<>>, data_rooms |-> EmptyMap,
                    access_levels |-> EmptyMap, level_writes |-> 0]
    /\ downstream = DownstreamEmpty
    /\ pc = "transfers"
    /\ state = TokenizedAppState
    /\ iter = IterationNone
    /\ hist = [sweeps |-> <<>>, minted_and_burnt |-> {}]
    /\ processed = BatchNone
    /\ rw = RwFree
    /\ unit = UnitNone

SpecTransfers == InitTransfers /\ [][NextTransfers]_vars

(***************************************************************************)
(* The application with a tokenized IPNFT                                  *)
(***************************************************************************)
MaxTokenBlock == 6          \* the chain finalizes blocks 1..MaxTokenBlock
MaxTokenTransactions == 4   \* transactions the chain carries

\* The IP token's issuer issues further tokens to a wallet.
IptIssueTransactions(w) ==
    UNION {{<<LogIPTTransfer(t, ZERO, to, value)>> :
                to \in Wallets, value \in 1..MaxTransferValue} :
           t \in DOMAIN w.balances}

FinalizeTokenBlock(transaction) ==
    /\ pc # "exited"
    /\ Len(chain) < MaxTokenBlock
    /\ transaction # <<>> => TransactionCount < MaxTokenTransactions
    /\ chain' = Append(chain, transaction)
    /\ UNCHANGED <<fetch, catalogue, downstream, pc, state, iter, hist, processed, rw, unit>>

\* Before the bridge starts: block 1 minted IPNFT 1 to e1, block 2 tokenized
\* it as t1; the catalogue has its project with the file f1 for holders.
InitTokenized ==
    /\ fetch = None
    /\ chain = <<<<LogIPNFTTransfer(1, ZERO, "e1"), LogIPNFTMinted(1, "e1")>>,
                 <<LogTokensCreated(1, "t1"),
                   LogIPTTransfer("t1", ZERO, "e1", InitialSupply)>>>>
    /\ catalogue = [projects |-> <<ProjectRow(1)>>,
                    data_rooms |-> MapInsert(EmptyMap, DataRoomOf(1),
                                             <<[op |-> "Append", ref |-> "f1"]>>),
                    access_levels |-> MapInsert(EmptyMap, "f1", "Holder"),
                    level_writes |-> 0]
    /\ downstream = DownstreamEmpty
    /\ pc = "init"
    /\ state = AppStateDefault
    /\ iter = IterationNone
    /\ hist = [sweeps |-> <<>>, minted_and_burnt |-> {}]
    /\ processed = BatchNone
    /\ rw = RwFree
    /\ unit = UnitNone

NextTokenized ==
    \/ \E fail \in Failures \cup {"none"} : Init_(fail)
    \/ \E fail \in Failures \cup {"none"}, due \in BOOLEAN : Update(fail, due)
    \/ \E transaction \in IptIssueTransactions(World) \cup IptTransferTransactions(World)
                            \cup {<<>>} :
            FinalizeTokenBlock(transaction)

SpecTokenized == InitTokenized /\ [][NextTokenized]_vars

(***************************************************************************)
(* The application with a tokenized IPNFT whose data room changes          *)
(***************************************************************************)
MaxDataRoomRows == 3        \* rows the data room of the project gets

\* The catalogue's writers link or unlink a file of the project's data room.
WriteTokenizedDataRoom(row) ==
    /\ pc # "exited"
    /\ Len(catalogue.data_rooms[DataRoomOf(1)]) < MaxDataRoomRows
    /\ catalogue' = [catalogue EXCEPT !.data_rooms[DataRoomOf(1)] = Append(@, row)]
    /\ UNCHANGED <<fetch, chain, downstream, pc, state, iter, hist, processed, rw, unit>>

NextFiles ==
    \/ \E fail \in Failures \cup {"none"} : Init_(fail)
    \/ \E fail \in Failures \cup {"none"}, due \in BOOLEAN : Update(fail, due)
    \/ \E transaction \in IptTransferTransactions(World) \cup {<<>>} :
            FinalizeTokenBlock(transaction)
    \/ \E row \in DataRoomRowsToAdd(DataRoomOf(1)) : WriteTokenizedDataRoom(row)

SpecFiles == InitTokenized /\ [][NextFiles]_vars

(***************************************************************************)
(* The application and the shutdown signal                                 *)
(***************************************************************************)

\* App::run, lines 167-171: select! polls the HTTP server and main. The
\* shutdown signal completes the server's future, select! returns its result
\* and drops the future of main at the await it stands on: `at` is that
\* await, `r` what the call had done when it reached it. The request of the
\* await itself is taken as not yet served.
Abandoned(call, before, at, r) ==
    /\ r.failed = at
    /\ state' = IF call = "init" THEN state ELSE r.app_state
    /\ downstream' = r.node
    /\ pc' = "stopped"
    /\ iter' = Iteration(call, before, r)
    /\ hist' = History(r)

ShutdownDuringInit(at) ==
    /\ pc = "init"
    /\ latest_finalized_block_number
            >= Min(ipnft_contract_birth_block, tokenizer_contract_birth_block)
    /\ Abandoned("init", SeededAppState, at, init(downstream, at))
    /\ UNCHANGED <<fetch, chain, catalogue, processed, rw, unit>>

ShutdownDuringUpdate(at, due) ==
    /\ pc = "loop"
    /\ Abandoned("update", state, at, update(state, downstream, at, due))
    /\ UNCHANGED <<fetch, chain, catalogue, processed, rw, unit>>

\* main, line 203: the signal arrives during the sleep between two iterations.
ShutdownWhileSleeping ==
    /\ pc = "loop"
    /\ pc' = "stopped"
    /\ UNCHANGED <<fetch, chain, catalogue, downstream, state, iter, hist, processed, rw, unit>>

NextShutdown ==
    \/ \E fail \in Failures \cup {"none"} : Init_(fail)
    \/ \E fail \in Failures \cup {"none"}, due \in BOOLEAN : Update(fail, due)
    \/ \E transaction \in IptTransferTransactions(World) \cup {<<>>} :
            pc # "stopped" /\ FinalizeTokenBlock(transaction)
    \/ \E at \in Failures : ShutdownDuringInit(at)
    \/ \E at \in Failures, due \in BOOLEAN : ShutdownDuringUpdate(at, due)
    \/ ShutdownWhileSleeping

SpecShutdown == InitTokenized /\ [][NextShutdown]_vars

(***************************************************************************)
(* The application and a reader of the shared AppState                     *)
(***************************************************************************)

\* The awaits of update in the order it reaches them; the first one comes
\* before the write lock is taken (lines 251-253).
Awaits ==
    <<"finalized", "contracts_sweep", "safes_sweep", "tokens_sweep", "clock",
      "catalogue", "resolver", "create_accounts", "apply">>

PositionOf(at) == CHOOSE i \in 1..Len(Awaits) : Awaits[i] = at

\* StateRequester for RwLock<AppState>, line 69: self.read().await resolves
\* when no writer holds the lock.
ReadAdmitted_while_writing(lock) == TRUE

ReadAdmitted(lock) == ~lock.write_locked

\* request_as_json, lines 68-71: the reader serializes what it finds. A
\* request that waited for the lock can still be served after a failed call
\* returned and before the process is gone.
ReadState ==
    /\ ReadAdmitted(rw)
    /\ rw' = [rw EXCEPT !.snapshot = Some([state |-> state, boundary |-> rw.boundary])]
    /\ UNCHANGED <<fetch, chain, catalogue, downstream, pc, state, iter, hist, processed, unit>>

\* init, lines 213-215: init works on its own AppState.
InitStarts ==
    /\ pc = "init"
    /\ latest_finalized_block_number
            >= Min(ipnft_contract_birth_block, tokenizer_contract_birth_block)
    /\ pc' = "in_init"
    /\ UNCHANGED <<fetch, chain, catalogue, downstream, state, iter, hist, processed, rw, unit>>

\* init, lines 217-222: the state is published in one assignment under the
\* write lock, or init returns its error and publishes nothing.
InitReturns(fail) ==
    /\ pc = "in_init"
    /\ Returned("init", SeededAppState, fail, init(downstream, fail))
    /\ rw' = [rw EXCEPT !.boundary = state']
    /\ UNCHANGED <<fetch, chain, catalogue, processed, unit>>

\* update, line 251: the first await fails, before the lock is asked for.
UpdateFailsAtFinalized ==
    /\ pc = "loop"
    /\ Returned("update", state, "finalized", update(state, downstream, "finalized", FALSE))
    /\ rw' = [rw EXCEPT !.boundary = state']
    /\ UNCHANGED <<fetch, chain, catalogue, processed, unit>>

\* update, line 253: write_owned().await.
UpdateLocks(due) ==
    /\ pc = "loop"
    /\ pc' = "in_update"
    /\ rw' = [rw EXCEPT !.write_locked = TRUE, !.due = due, !.at = 1, !.before = state]
    /\ UNCHANGED <<fetch, chain, catalogue, downstream, state, iter, hist, processed, unit>>

\* update stands at the await `at`, having written into the locked AppState
\* what precedes it.
UpdateAwaits(at) ==
    /\ pc = "in_update"
    /\ PositionOf(at) > rw.at
    /\ update(rw.before, downstream, at, rw.due).failed = at
    /\ state' = update(rw.before, downstream, at, rw.due).app_state
    /\ rw' = [rw EXCEPT !.at = PositionOf(at)]
    /\ UNCHANGED <<fetch, chain, catalogue, downstream, pc, iter, hist, processed, unit>>

\* update returns, with Ok or with the error of the await `fail`; the owned
\* guard is dropped with the frame.
UpdateReturns(fail) ==
    /\ pc = "in_update"
    /\ fail # "none" => PositionOf(fail) >= rw.at
    /\ Returned("update", rw.before, fail, update(rw.before, downstream, fail, rw.due))
    /\ rw' = [rw EXCEPT !.write_locked = FALSE, !.at = 0, !.boundary = state']
    /\ UNCHANGED <<fetch, chain, catalogue, processed, unit>>

NextReaders ==
    \/ InitStarts
    \/ \E fail \in Failures \cup {"none"} : InitReturns(fail)
    \/ UpdateFailsAtFinalized
    \/ \E due \in BOOLEAN : UpdateLocks(due)
    \/ \E at \in Failures \ {"finalized"} : UpdateAwaits(at)
    \/ \E fail \in (Failures \ {"finalized"}) \cup {"none"} : UpdateReturns(fail)
    \/ \E transaction \in IptTransferTransactions(World) \cup {<<>>} :
            pc \notin {"in_init", "in_update"} /\ FinalizeTokenBlock(transaction)
    \/ ReadState

SpecReaders == InitTokenized /\ [][NextReaders]_vars

(***************************************************************************)
(* AppState.access_changes on its own                                      *)
(***************************************************************************)
MaxClock == 2               \* Utc::now() answers 1..MaxClock
MaxAuditedCalls == 3        \* operation lists handed to the client

\* Lines 1029-1040 and 1217-1230: access_changes is a HashMap keyed by
\* Utc::now(); insert replaces the value of a key that is present.
access_changes_insert(access_changes, now, reason, operations) ==
    IF operations # <<>>
    THEN MapInsert(access_changes, now, [reason |-> reason, operations |-> operations])
    ELSE access_changes

AuditedOperationLists ==
    {<<>>,
     <<[account_id |-> create_did_phk("e1"), operation |-> "Set(Maintainer)",
        dataset_id |-> DataRoomOf(1)]>>,
     <<[account_id |-> create_did_phk("e2"), operation |-> "Set(Reader)",
        dataset_id |-> DataRoomOf(1)]>>}

\* One turn of the loop of interval_access_applying or initial_access_applying
\* for the IPNFT token_id: the audit entry, then the call of the client.
\* The wall clock may answer the same instant twice or step back.
AccessApplyingTurn(now, kind, token_id, operations) ==
    /\ pc = "access_applying"
    /\ Len(unit.handed) < MaxAuditedCalls
    /\ unit' = [call |-> "access_applying",
                access_changes |->
                    access_changes_insert(unit.access_changes, now,
                                          <<IpnftUid(token_id), kind>>, operations),
                previous |-> unit.access_changes,
                handed |-> Append(unit.handed, operations),
                repeated |-> unit.repeated
                    \/ (operations # <<>> /\ now \in DOMAIN unit.access_changes)]
    /\ UNCHANGED <<fetch, chain, catalogue, downstream, pc, state, iter, hist, processed, rw>>

NextAudit ==
    \E now \in 1..MaxClock, kind \in {"initial", "interval"}, token_id \in 1..2,
       operations \in AuditedOperationLists :
        AccessApplyingTurn(now, kind, token_id, operations)

InitAudit ==
    /\ fetch = None
    /\ chain = <<>>
    /\ catalogue = [projects |-> <<>>, data_rooms |-> EmptyMap,
                    access_levels |-> EmptyMap, level_writes |-> 0]
    /\ downstream = DownstreamEmpty
    /\ pc = "access_applying"
    /\ state = AppStateDefault
    /\ iter = IterationNone
    /\ hist = [sweeps |-> <<>>, minted_and_burnt |-> {}]
    /\ processed = BatchNone
    /\ rw = RwFree
    /\ unit = [call |-> "none", access_changes |-> EmptyMap, previous |-> EmptyMap,
               handed |-> <<>>, repeated |-> FALSE]

SpecAudit == InitAudit /\ [][NextAudit]_vars

(***************************************************************************)
(* init run again by a restarted process                                   *)
(***************************************************************************)
MaxInitRuns == 2            \* completed runs of init that are recorded
MaxFailedInits == 1         \* runs of init that end with an error

OperationsOf(emitted) ==
    UNION {Range(emitted[i].operations) : i \in DOMAIN emitted}

\* The result of one completed run of init (lines 212-222): the AppState it
\* shares, and the operations it handed to the client.
InitRun(r) ==
    [app_state |-> r.app_state, operations |-> OperationsOf(r.emitted)]

\* A process runs init to its end. Every process starts from an empty
\* AppState (line 44: nothing is persisted); the node keeps what earlier
\* processes wrote.
InitCompletes ==
    /\ pc \in {"init", "restarted"}
    /\ Len(unit.runs) < MaxInitRuns
    /\ latest_finalized_block_number
            >= Min(ipnft_contract_birth_block, tokenizer_contract_birth_block)
    /\ Returned("init", SeededAppState, "none", init(downstream, "none"))
    /\ unit' = [call |-> "init",
                runs |-> Append(unit.runs, InitRun(init(downstream, "none"))),
                failed |-> unit.failed]
    /\ UNCHANGED <<fetch, chain, catalogue, processed, rw>>

\* init returns an error, main returns it (line 197) and the process ends;
\* what it wrote to the node stays.
InitFailsAndExits(fail) ==
    /\ pc \in {"init", "restarted"}
    /\ unit.failed < MaxFailedInits
    /\ latest_finalized_block_number
            >= Min(ipnft_contract_birth_block, tokenizer_contract_birth_block)
    /\ Returned("init", SeededAppState, fail, init(downstream, fail))
    /\ unit' = [unit EXCEPT !.failed = @ + 1]
    /\ UNCHANGED <<fetch, chain, catalogue, processed, rw>>

\* The process is started again: the AppState of the old process is gone.
Restart ==
    /\ pc \in {"loop", "exited"}
    /\ pc' = "restarted"
    /\ state' = AppStateDefault
    /\ UNCHANGED <<fetch, chain, catalogue, downstream, iter, hist, processed, rw, unit>>

\* The chain and the catalogue change only before the first run.
NextRestart ==
    \/ InitCompletes
    \/ \E fail \in {"create_accounts", "apply"} : InitFailsAndExits(fail)
    \/ Restart
    \/ pc = "init" /\ \E transaction \in Transactions(World) \cup {<<>>} :
            FinalizeBlock(transaction)
    \/ pc = "init" /\ \E row \in ProjectRowsToAdd : AddProject(row)
    \/ pc = "init" /\ \E data_room \in DOMAIN catalogue.data_rooms :
            \E row \in DataRoomRowsToAdd(data_room),
               first_level \in {None} \cup {Some(l) : l \in WrittenAccessLevels} :
                WriteDataRoom(data_room, row, first_level)
    \/ pc = "init" /\ \E file \in Files, level \in WrittenAccessLevels :
            WriteAccessLevel(file, level)

InitRestart ==
    /\ fetch = None
    /\ chain = <<>>
    /\ catalogue = [projects |-> <<>>, data_rooms |-> EmptyMap,
                    access_levels |-> EmptyMap, level_writes |-> 0]
    /\ downstream = DownstreamEmpty
    /\ pc = "init"
    /\ state = AppStateDefault
    /\ iter = IterationNone
    /\ hist = [sweeps |-> <<>>, minted_and_burnt |-> {}]
    /\ processed = BatchNone
    /\ rw = RwFree
    /\ unit = [call |-> "none", runs |-> <<>>, failed |-> 0]

SpecRestart == InitRestart /\ [][NextRestart]_vars

(***************************************************************************)
(* IpnftEventProcessingStrategy::process with decisions                    *)
(* (strategies/ipnft_event_processing_strategy.rs)                         *)
(***************************************************************************)
MaxEventBatchLen == 2       \* events of one call of process
StrategyTokenIds == {1, 2}
StrategyAddresses == Wallets \cup Safes

\* Lines 43-49.
IpnftProjectionDefault ==
    [symbol |-> None, current_owner |-> None, former_owners |-> {},
     minted |-> FALSE, burnt |-> FALSE]

\* Lines 57-77: one event on the projection of its IPNFT.
IpnftProjectionAfterEvent(projection, event) ==
    CASE event.kind = "Minted" ->
            [projection EXCEPT !.symbol = Some(event.symbol),
                               !.current_owner = Some(event.initial_owner),
                               !.minted = TRUE]
      [] event.kind = "Transfer" ->
            [projection EXCEPT
                !.former_owners = IF ~projection.minted THEN @ \cup {event.from} ELSE @,
                !.current_owner = Some(event.to)]
      [] OTHER ->
            [projection EXCEPT !.current_owner = None,
                               !.former_owners = @ \cup {event.former_owner},
                               !.burnt = TRUE]

\* Lines 51-78.
RECURSIVE ipnft_projections_map_from(_, _)
ipnft_projections_map_from(projections, events) ==
    IF events = <<>> THEN projections
    ELSE ipnft_projections_map_from(
            MapInsert(projections, Head(events).ipnft_uid,
                      IpnftProjectionAfterEvent(
                          MapGetOr(projections, Head(events).ipnft_uid,
                                   IpnftProjectionDefault),
                          Head(events))),
            Tail(events))

\* Lines 130-136: the owners behind an address; `resolver` maps an address
\* to the answer of MultisigResolver::get_multisig_owners.
strategy_get_owners(resolver, address) ==
    [owners |-> IF IsSome(resolver[address]) THEN Unwrap(resolver[address])
                ELSE {address},
     multisig |-> IsSome(resolver[address])]

Decision(kind, ipnft_uid, address) ==
    [kind |-> kind, ipnft_uid |-> ipnft_uid, address |-> address]

\* Lines 91-105 and 109-123: the decisions for one owner address.
DecisionsForOwner(for_owner, for_multisig, ipnft_uid, address, r) ==
    [i \in 1..Cardinality(r.owners) |->
        Decision(for_owner, ipnft_uid, SetToSeq(r.owners)[i])]
    \o (IF r.multisig THEN <<Decision(for_multisig, ipnft_uid, address)>> ELSE <<>>)

\* Lines 83-124: the decisions for one IPNFT.
DecisionsForIpnft(resolver, ipnft_uid, projection) ==
    IF projection.minted /\ projection.burnt THEN <<>>
    ELSE (IF IsSome(projection.current_owner)
          THEN DecisionsForOwner("GrantMaintainerAccess", "AddMultisigToIndexing",
                                 ipnft_uid, Unwrap(projection.current_owner),
                                 strategy_get_owners(resolver,
                                                     Unwrap(projection.current_owner)))
          ELSE <<>>)
         \o Flatten([i \in 1..Cardinality(projection.former_owners) |->
                DecisionsForOwner("RevokeMaintainerAccess", "RemoveMultisigFromIndexing",
                                  ipnft_uid, SetToSeq(projection.former_owners)[i],
                                  strategy_get_owners(
                                      resolver, SetToSeq(projection.former_owners)[i]))])

DecisionsForProjections(resolver, projections) ==
    Flatten([i \in 1..Cardinality(DOMAIN projections) |->
        DecisionsForIpnft(resolver, SetToSeq(DOMAIN projections)[i],
                          projections[SetToSeq(DOMAIN projections)[i]])])

\* Lines 38-128, for a resolver that answers every call.
process_decisions(resolver, events) ==
    DecisionsForProjections(resolver, ipnft_projections_map_from(EmptyMap, events))

StrategyEvents ==
    [kind : {"Minted"}, ipnft_uid : {IpnftUid(t) : t \in StrategyTokenIds},
     initial_owner : StrategyAddresses, symbol : {"SYM"}]
    \cup [kind : {"Transfer"}, ipnft_uid : {IpnftUid(t) : t \in StrategyTokenIds},
          from : StrategyAddresses, to : StrategyAddresses]
    \cup [kind : {"Burnt"}, ipnft_uid : {IpnftUid(t) : t \in StrategyTokenIds},
          former_owner : StrategyAddresses]

StrategyEventBatches ==
    UNION {[1..n -> StrategyEvents] : n \in 0..MaxEventBatchLen}

\* The oracle knows no wallet as a multisig; a safe has any set of members,
\* or is unknown to the oracle.
StrategyResolvers ==
    {[a \in StrategyAddresses |-> IF a \in Safes THEN answer ELSE None] :
        answer \in {None} \cup {Some(owners) : owners \in SUBSET Wallets}}

Process ==
    /\ pc = "strategy"
    /\ unit.call = "none"
    /\ unit' = [unit EXCEPT !.call = "process",
                            !.decisions = process_decisions(unit.resolver, unit.events)]
    /\ UNCHANGED <<fetch, chain, catalogue, downstream, pc, state, iter, hist, processed, rw>>

NextStrategy == Process

InitStrategy ==
    /\ fetch = None
    /\ chain = <<>>
    /\ catalogue = [projects |-> <<>>, data_rooms |-> EmptyMap,
                    access_levels |-> EmptyMap, level_writes |-> 0]
    /\ downstream = DownstreamEmpty
    /\ pc = "strategy"
    /\ state = AppStateDefault
    /\ iter = IterationNone
    /\ hist = [sweeps |-> <<>>, minted_and_burnt |-> {}]
    /\ processed = BatchNone
    /\ rw = RwFree
    /\ \E events \in StrategyEventBatches, resolver \in StrategyResolvers :
            unit = [call |-> "none", events |-> events, resolver |-> resolver,
                    decisions |-> <<>>]

SpecStrategy == InitStrategy /\ [][NextStrategy]_vars

(***************************************************************************)
(* IpnftUid as a string (entities/ipnft_uid.rs)                            *)
(***************************************************************************)
AddressNibbles == 2         \* hex digits of an address (40 in the program)
NibbleValues == {0, 9, 10, 15}

DecimalChars == <<"0", "1", "2", "3", "4", "5", "6", "7", "8", "9">>
LowerHexChars == DecimalChars \o <<"a", "b", "c", "d", "e", "f">>
UpperHexChars == DecimalChars \o <<"A", "B", "C", "D", "E", "F">>

\* U256 written in hexadecimal without a prefix.
RECURSIVE u256_to_string_hex(_)
u256_to_string_hex(n) ==
    IF n < 16 THEN <<LowerHexChars[n + 1]>>
    ELSE u256_to_string_hex(n \div 16) \o <<LowerHexChars[(n % 16) + 1]>>

\* Display of U256: decimal digits, no prefix.
RECURSIVE u256_to_string(_)
u256_to_string(n) ==
    IF n < 10 THEN <<DecimalChars[n + 1]>>
    ELSE u256_to_string(n \div 10) \o <<DecimalChars[(n % 10) + 1]>>

\* Display of Address: "0x" and the hex digits in the case of the EIP-55
\* checksum; `upper` says which positions the checksum puts in upper case.
address_to_string(address, upper) ==
    <<"0", "x">> \o [i \in 1..Len(address) |->
                        IF upper[i] THEN UpperHexChars[address[i] + 1]
                        ELSE LowerHexChars[address[i] + 1]]

\* Line 16: write!(f, "{}_{}", self.ipnft_address, self.token_id).
ipnft_uid_to_string(uid, upper) ==
    address_to_string(uid.ipnft_address, upper) \o <<"_">>
        \o u256_to_string(uid.token_id)

\* The value of a digit in a radix, in either case; None for another char.
DigitValue(ch, radix) ==
    IF \E d \in 1..radix : LowerHexChars[d] = ch \/ UpperHexChars[d] = ch
    THEN Some((CHOOSE d \in 1..radix : LowerHexChars[d] = ch \/ UpperHexChars[d] = ch) - 1)
    ELSE None

\* Uint::from_str_radix: None for no digit, a char that is no digit, or a
\* value that does not fit.
RECURSIVE from_str_radix(_, _, _)
from_str_radix(chars, radix, acc) ==
    IF chars = <<>> THEN Some(acc)
    ELSE IF ~IsSome(DigitValue(Head(chars), radix)) THEN None
    ELSE IF acc * radix + Unwrap(DigitValue(Head(chars), radix)) >= U256Modulus THEN None
    ELSE from_str_radix(Tail(chars), radix,
                        acc * radix + Unwrap(DigitValue(Head(chars), radix)))

\* U256::from_str, line 34: a prefix 0x, 0o or 0b selects the radix,
\* without one the digits are decimal.
u256_from_str(chars) ==
    IF Len(chars) >= 2 /\ chars[1] = "0" /\ chars[2] \in {"x", "X", "o", "O", "b", "B"}
    THEN IF Len(chars) = 2 THEN None
         ELSE from_str_radix(SubSeq(chars, 3, Len(chars)),
                             CASE chars[2] \in {"x", "X"} -> 16
                               [] chars[2] \in {"o", "O"} -> 8
                               [] OTHER -> 2,
                             0)
    ELSE IF chars = <<>> THEN None ELSE from_str_radix(chars, 10, 0)

\* Address::from_str, line 32: an optional 0x, then exactly the hex digits
\* of an address, in either case.
address_digits(chars) ==
    IF Len(chars) >= 2 /\ chars[1] = "0" /\ chars[2] = "x"
    THEN SubSeq(chars, 3, Len(chars)) ELSE chars

address_from_str(chars) ==
    IF Len(address_digits(chars)) = AddressNibbles
       /\ \A i \in 1..AddressNibbles : IsSome(DigitValue(address_digits(chars)[i], 16))
    THEN Some([i \in 1..AddressNibbles |->
                Unwrap(DigitValue(address_digits(chars)[i], 16))])
    ELSE None

\* s.split('_'), line 24.
RECURSIVE split(_, _, _)
split(chars, parts, part) ==
    IF chars = <<>> THEN Append(parts, part)
    ELSE IF Head(chars) = "_" THEN split(Tail(chars), Append(parts, part), <<>>)
    ELSE split(Tail(chars), parts, Append(part, Head(chars)))

\* Lines 23-41; None stands for the Err results.
ipnft_uid_parts(parts) ==
    IF Len(parts) # 2 THEN None
    ELSE IF ~IsSome(address_from_str(parts[1])) \/ ~IsSome(u256_from_str(parts[2]))
    THEN None
    ELSE Some([ipnft_address |-> Unwrap(address_from_str(parts[1])),
               token_id |-> Unwrap(u256_from_str(parts[2]))])

ipnft_uid_from_str(chars) == ipnft_uid_parts(split(chars, <<>>, <<>>))

DisplayUid ==
    /\ pc = "ipnft_uid"
    /\ unit.call = "none"
    /\ unit' = [unit EXCEPT !.call = "to_string",
                            !.displayed = ipnft_uid_to_string(unit.original, unit.upper)]
    /\ UNCHANGED <<fetch, chain, catalogue, downstream, pc, state, iter, hist, processed, rw>>

ParseUid ==
    /\ pc = "ipnft_uid"
    /\ unit.call = "to_string"
    /\ unit' = [unit EXCEPT !.call = "from_str",
                            !.parsed = ipnft_uid_from_str(unit.displayed)]
    /\ UNCHANGED <<fetch, chain, catalogue, downstream, pc, state, iter, hist, processed, rw>>

NextUid == DisplayUid \/ ParseUid

InitUid ==
    /\ fetch = None
    /\ chain = <<>>
    /\ catalogue = [projects |-> <<>>, data_rooms |-> EmptyMap,
                    access_levels |-> EmptyMap, level_writes |-> 0]
    /\ downstream = DownstreamEmpty
    /\ pc = "ipnft_uid"
    /\ state = AppStateDefault
    /\ iter = IterationNone
    /\ hist = [sweeps |-> <<>>, minted_and_burnt |-> {}]
    /\ processed = BatchNone
    /\ rw = RwFree
    /\ \E address \in [1..AddressNibbles -> NibbleValues],
          token_id \in 0..(U256Modulus - 1),
          upper \in [1..AddressNibbles -> BOOLEAN] :
            unit = [call |-> "none",
                    original |-> [ipnft_address |-> address, token_id |-> token_id],
                    upper |-> upper, displayed |-> <<>>, parsed |-> None]

SpecUid == InitUid /\ [][NextUid]_vars

(***************************************************************************)
(* DidPhk::new_from_chain_id under any configured chain id                 *)
(***************************************************************************)
ChainIds == {0, 1, 2, 5, 11155110, 11155111, 11155112}

\* did_phk.rs 14-17; None stands for the Err result.
new_from_chain_id(id, address) ==
    IF IsSome(get_caip2(id))
    THEN Some(<<"did:pkh", Unwrap(get_caip2(id)), address>>)
    ELSE None

DidPkhsOf(id, addresses) == {Unwrap(new_from_chain_id(id, a)) : a \in addresses}

\* create_did_pkh_accounts, lines 1396-1425, with config.chain_id = id: the
\* first call of create_did_phk that fails ends it.
create_did_pkh_accounts_on(id, accounts) ==
    IF \E a \in accounts.current_owners \cup accounts.holders
                    \cup accounts.revoke_access_accounts :
            ~IsSome(new_from_chain_id(id, a))
    THEN None
    ELSE Some([current_owners_did_pkhs |-> DidPkhsOf(id, accounts.current_owners),
               holders_did_pkhs |-> DidPkhsOf(id, accounts.holders),
               revoke_access_accounts_did_pkh |->
                    DidPkhsOf(id, accounts.revoke_access_accounts)])

\* Lines 1266-1297 and 1217-1233 after get_accounts_by_ipnft_state: the
\* accounts, then the operations on the project's core datasets.
reconciled_with(did_pkhs, node) ==
    [failed |-> FALSE,
     node |-> apply_account_dataset_relations(
                create_wallet_accounts(node, AllAccounts(did_pkhs)),
                build_operations(
                    [ProjectDatasetIdsDefault EXCEPT
                        !.core_file_dataset_ids = {DataRoomOf(1), AnnouncementsOf(1)}],
                    did_pkhs))]

reconciled_on(id, accounts, node) ==
    IF IsSome(create_did_pkh_accounts_on(id, accounts))
    THEN reconciled_with(Unwrap(create_did_pkh_accounts_on(id, accounts)), node)
    ELSE [failed |-> TRUE, node |-> node]

ReconcileOn ==
    /\ pc = "did_phk"
    /\ unit.call = "none"
    /\ unit' = [unit EXCEPT
            !.call = "initial_access_applying_for_ipnft",
            !.did_phk = [a \in Wallets |-> new_from_chain_id(unit.chain_id, a)],
            !.result = reconciled_on(unit.chain_id, unit.accounts, unit.node)]
    /\ UNCHANGED <<fetch, chain, catalogue, downstream, pc, state, iter, hist, processed, rw>>

NextDid == ReconcileOn

\* The accounts as account_access_sanity_checks leaves them: a wallet is in
\* at most one of the three sets.
InitDid ==
    /\ fetch = None
    /\ chain = <<>>
    /\ catalogue = [projects |-> <<>>, data_rooms |-> EmptyMap,
                    access_levels |-> EmptyMap, level_writes |-> 0]
    /\ downstream = DownstreamEmpty
    /\ pc = "did_phk"
    /\ state = AppStateDefault
    /\ iter = IterationNone
    /\ hist = [sweeps |-> <<>>, minted_and_burnt |-> {}]
    /\ processed = BatchNone
    /\ rw = RwFree
    /\ \E id \in ChainIds, owners \in SUBSET Wallets :
        \E holders \in SUBSET (Wallets \ owners) :
        \E revoke \in SUBSET (Wallets \ (owners \cup holders)) :
            unit = [call |-> "none", chain_id |-> id,
                    accounts |-> [current_owners |-> owners, holders |-> holders,
                                  revoke_access_accounts |-> revoke],
                    node |-> DownstreamEmpty,
                    did_phk |-> [a \in Wallets |-> None],
                    result |-> [failed |-> FALSE, node |-> DownstreamEmpty]]

SpecDid == InitDid /\ [][NextDid]_vars

(***************************************************************************)
(* The files of one project over several catalogue syncs                   *)
(***************************************************************************)
MaxSyncRows == 3            \* rows of the project's data room
SyncFiles == {"f1", "f2"}

\* The data rooms a catalogue can hold: a file is appended when it is not
\* linked and retracted when it is.
SyncDataRooms ==
    {rows \in UNION {[1..n -> [op : {"Append", "Retract"}, ref : SyncFiles]] :
                        n \in 1..MaxSyncRows} :
        \A i \in DOMAIN rows :
            (rows[i].op = "Retract") <=> (rows[i].ref \in LiveFiles(SubSeq(rows, 1, i - 1)))}

SyncAccessLevels ==
    UNION {[files -> {"Admin", "Public"}] : files \in SUBSET SyncFiles}

\* The answer of get_versioned_files_entries_by_data_rooms for the rows
\* after the first `synced` ones, up to row `upto`.
SyncedEntries(rows, synced, upto) ==
    FoldDataRoomRows(VersionedFilesEntriesDefault, SubSeq(rows, 1, upto), synced + 1)

\* Lines 978-992: the projection of a new project.
NewProjectProjection(project_entry, versioned_files_entries, molecule_access_levels_map) ==
    [entry |-> project_entry,
     latest_data_room_offset |-> versioned_files_entries.latest_data_room_offset,
     actual_files_map |->
        build_added_file_entries_with_molecule_access_level_map(
            versioned_files_entries.added_entities, molecule_access_levels_map),
     removed_files_map |-> versioned_files_entries.removed_entities]

\* The sync that finds the project: III of load_molecule_projects.
SyncNewProject(upto) ==
    /\ pc = "sync"
    /\ unit.call = "none"
    /\ upto \in 1..Len(unit.rows)
    /\ unit' = [unit EXCEPT
            !.call = "new",
            !.synced = upto,
            !.entries = SyncedEntries(unit.rows, 0, upto),
            !.project = NewProjectProjection(
                            ProjectRow(1) @@ [offset |-> 0],
                            SyncedEntries(unit.rows, 0, upto), unit.levels)]
    /\ UNCHANGED <<fetch, chain, catalogue, downstream, pc, state, iter, hist, processed, rw>>

\* A later sync that finds new rows: II of load_molecule_projects.
SyncExistingProject(upto) ==
    /\ pc = "sync"
    /\ unit.call # "none"
    /\ upto \in (unit.synced + 1)..Len(unit.rows)
    /\ unit' = [unit EXCEPT
            !.call = "existing",
            !.synced = upto,
            !.entries = SyncedEntries(unit.rows, unit.synced, upto),
            !.before = unit.project,
            !.project = ExistingProjectAfterSync(
                            unit.project,
                            [d \in {DataRoomOf(1)} |->
                                SyncedEntries(unit.rows, unit.synced, upto)],
                            unit.levels).project]
    /\ UNCHANGED <<fetch, chain, catalogue, downstream, pc, state, iter, hist, processed, rw>>

NextSync ==
    \/ \E upto \in 1..MaxSyncRows : SyncNewProject(upto)
    \/ \E upto \in 1..MaxSyncRows : SyncExistingProject(upto)

ProjectionNone ==
    [entry |-> ProjectRow(1) @@ [offset |-> 0], latest_data_room_offset |-> 0,
     actual_files_map |-> EmptyMap, removed_files_map |-> EmptyMap]

InitSync ==
    /\ fetch = None
    /\ chain = <<>>
    /\ catalogue = [projects |-> <<>>, data_rooms |-> EmptyMap,
                    access_levels |-> EmptyMap, level_writes |-> 0]
    /\ downstream = DownstreamEmpty
    /\ pc = "sync"
    /\ state = AppStateDefault
    /\ iter = IterationNone
    /\ hist = [sweeps |-> <<>>, minted_and_burnt |-> {}]
    /\ processed = BatchNone
    /\ rw = RwFree
    /\ \E rows \in SyncDataRooms, levels \in SyncAccessLevels :
            unit = [call |-> "none", rows |-> rows, levels |-> levels, synced |-> 0,
                    entries |-> VersionedFilesEntriesDefault,
                    before |-> ProjectionNone, project |-> ProjectionNone]

SpecSync == InitSync /\ [][NextSync]_vars

(***************************************************************************)
(* SafeWalletApiService::get_multisig_owners and its cache                 *)
(* (infra/multisig_safe_wallet/src/services/safe_wallet_api_service.rs)    *)
(***************************************************************************)
MaxResolverCalls == 3       \* calls of get_multisig_owners, possibly concurrent
ResolverAddresses == {"ms", "e1"}
CodeAnswers == {"empty", "code", "error"}           \* get_code_at
OracleStatuses == {"200", "404", "500", "send_error"}     \* GET /api/v1/safes/{address}/
OracleBodies == {Some({"e1"}), Some({"e1", "e2"}), None}    \* None: no valid JSON

\* What a status of the oracle leads to (lines 93-106).
status_outcome_caching_errors(status) ==
    CASE status = "200" -> "continue"
      [] status = "send_error" -> "bail"
      [] OTHER -> "cache_none"

status_outcome(status) ==
    CASE status = "200" -> "continue"
      [] status = "404" -> "cache_none"
      [] OTHER -> "bail"

\* The guard of the cache lock a call holds while it stands at an await:
\* the read guard is dropped with its block (line 75), every write guard is
\* taken after the last await of its path.
GuardHeldAt(await_point) == "none"

ResolverCall(address) ==
    [address |-> address, at |-> "get_code_at", holds |-> GuardHeldAt("get_code_at"),
     hit |-> FALSE, result |-> [kind |-> "pending"], wrote |-> FALSE,
     answer |-> "none"]

\* Lines 67-75: the call starts; a cached address is answered at once.
CallStarts(address) ==
    /\ pc = "resolver"
    /\ Len(unit.calls) < MaxResolverCalls
    /\ unit' = [unit EXCEPT
            !.calls = Append(@,
                IF address \in DOMAIN unit.cache
                THEN [ResolverCall(address) EXCEPT
                        !.at = "returned", !.holds = "none", !.hit = TRUE,
                        !.result = [kind |-> "ok", value |-> unit.cache[address]]]
                ELSE ResolverCall(address))]
    /\ UNCHANGED <<fetch, chain, catalogue, downstream, pc, state, iter, hist, processed, rw>>

NoGuardHeldByOthers(c) ==
    \A d \in DOMAIN unit.calls : d # c => unit.calls[d].holds = "none"

\* The call c returns Err: nothing is written.
CallBails(c, answer) ==
    unit' = [unit EXCEPT
        !.calls[c] = [@ EXCEPT !.at = "returned", !.holds = "none",
                               !.answer = answer, !.result = [kind |-> "err"]]]

\* The call c takes the write guard, inserts `value` and returns it.
CallCaches(c, answer, value) ==
    /\ NoGuardHeldByOthers(c)
    /\ unit' = [unit EXCEPT
            !.cache = MapInsert(@, unit.calls[c].address, value),
            !.calls[c] = [@ EXCEPT !.at = "returned", !.holds = "none",
                                   !.answer = answer, !.wrote = TRUE,
                                   !.result = [kind |-> "ok", value |-> value]]]

\* Lines 78-85: get_code_at has answered.
CodeAnswered(c, code) ==
    /\ pc = "resolver"
    /\ c \in DOMAIN unit.calls
    /\ unit.calls[c].at = "get_code_at"
    /\ CASE code = "error" ->
                CallBails(c, "rpc_error")
          [] code = "empty" ->
                CallCaches(c, "empty_code", None)
          [] OTHER ->
                unit' = [unit EXCEPT
                    !.calls[c] = [@ EXCEPT !.at = "send",
                                           !.holds = GuardHeldAt("send")]]
    /\ UNCHANGED <<fetch, chain, catalogue, downstream, pc, state, iter, hist, processed, rw>>

\* Lines 92-106: the oracle has answered with a status, or send failed.
OracleAnswered(c, status) ==
    /\ pc = "resolver"
    /\ c \in DOMAIN unit.calls
    /\ unit.calls[c].at = "send"
    /\ CASE status_outcome(status) = "continue" ->
                unit' = [unit EXCEPT
                    !.calls[c] = [@ EXCEPT !.at = "json",
                                           !.holds = GuardHeldAt("json")]]
          [] status_outcome(status) = "cache_none" ->
                CallCaches(c, status, None)
          [] OTHER ->
                CallBails(c, status)
    /\ UNCHANGED <<fetch, chain, catalogue, downstream, pc, state, iter, hist, processed, rw>>

\* Lines 115-125: the body of the 200 answer has been read.
BodyRead(c, body) ==
    /\ pc = "resolver"
    /\ c \in DOMAIN unit.calls
    /\ unit.calls[c].at = "json"
    /\ IF ~IsSome(body)
       THEN CallBails(c, "json_error")
       ELSE CallCaches(c, "200", Some(Unwrap(body)))
    /\ UNCHANGED <<fetch, chain, catalogue, downstream, pc, state, iter, hist, processed, rw>>

NextResolver ==
    \/ \E address \in ResolverAddresses : CallStarts(address)
    \/ \E c \in 1..MaxResolverCalls, code \in CodeAnswers : CodeAnswered(c, code)
    \/ \E c \in 1..MaxResolverCalls, status \in OracleStatuses : OracleAnswered(c, status)
    \/ \E c \in 1..MaxResolverCalls, body \in OracleBodies : BodyRead(c, body)

InitResolver ==
    /\ fetch = None
    /\ chain = <<>>
    /\ catalogue = [projects |-> <<>>, data_rooms |-> EmptyMap,
                    access_levels |-> EmptyMap, level_writes |-> 0]
    /\ downstream = DownstreamEmpty
    /\ pc = "resolver"
    /\ state = AppStateDefault
    /\ iter = IterationNone
    /\ hist = [sweeps |-> <<>>, minted_and_burnt |-> {}]
    /\ processed = BatchNone
    /\ rw = RwFree
    /\ unit = [call |-> "get_multisig_owners", cache |-> EmptyMap, calls |-> <<>>]

SpecResolver == InitResolver /\ [][NextResolver]_vars

(***************************************************************************)
(* The application against a Tokenizer whose creation events need not      *)
(* match: the symbol of the event may differ from the IPNFT's, the event   *)
(* may be the legacy MoleculesCreated, and an IPNFT may get a second one   *)
(***************************************************************************)
MaxTokenizerBlock == 4          \* the chain finalizes blocks 1..MaxTokenizerBlock
MaxTokenizerTransactions == 3   \* transactions the chain carries

IptContracts == {"t1", "t2"}
TokenizerSymbols == {"SYM", "OLD"}
CreationSignatures == {"TokensCreated", "MoleculesCreated"}

LogTokenCreated(sig, token_id, token_contract, symbol) ==
    [address |-> tokenizer_contract_address, sig |-> sig,
     ipnftId |-> token_id, symbol |-> symbol, tokenContract |-> token_contract]

\* A creation event for a live IPNFT, with the first issue of the token.
CreationTransactions(w) ==
    UNION {{<<LogTokenCreated(sig, id, t, symbol),
              LogIPTTransfer(t, ZERO, w.ipnft_owner[id], InitialSupply)>> :
                sig \in CreationSignatures, symbol \in TokenizerSymbols,
                t \in IptContracts \ DOMAIN w.balances} :
           id \in LiveIpnfts(w)}

FinalizeTokenizerBlock(transaction) ==
    /\ pc # "exited"
    /\ Len(chain) < MaxTokenizerBlock
    /\ transaction # <<>> => TransactionCount < MaxTokenizerTransactions
    /\ chain' = Append(chain, transaction)
    /\ UNCHANGED <<fetch, catalogue, downstream, pc, state, iter, hist, processed, rw, unit>>

NextTokenizer ==
    \/ \E fail \in Failures \cup {"none"} : Init_(fail)
    \/ \E fail \in Failures \cup {"none"}, due \in BOOLEAN : Update(fail, due)
    \/ \E transaction \in MintTransactions(World) \cup CreationTransactions(World)
                            \cup IptTransferTransactions(World) \cup {<<>>} :
            FinalizeTokenizerBlock(transaction)

SpecTokenizer == AppInit /\ [][NextTokenizer]_vars

(***************************************************************************)
(* The access levels of a project's files over several catalogue syncs     *)
(***************************************************************************)
MaxLevelWrites == 2         \* changes of access level the catalogue receives
MaxSyncs == 3               \* syncs of the project once it is known

\* The catalogue gets a new latest molecule_access_level for a file.
WriteLevel(file, level) ==
    /\ pc = "levels"
    /\ unit.level_writes < MaxLevelWrites
    /\ MapGetOr(unit.levels, file, "-") # level
    /\ unit' = [unit EXCEPT !.levels = MapInsert(@, file, level),
                            !.level_writes = @ + 1]
    /\ UNCHANGED <<fetch, chain, catalogue, downstream, pc, state, iter, hist, processed, rw>>

\* The first sync of the project: III of load_molecule_projects.
LevelsSyncNewProject(upto) ==
    /\ pc = "levels"
    /\ unit.call = "none"
    /\ upto \in 1..Len(unit.rows)
    /\ unit' = [unit EXCEPT
            !.call = "new",
            !.synced = upto,
            !.entries = SyncedEntries(unit.rows, 0, upto),
            !.levels_seen = unit.levels,
            !.project = NewProjectProjection(
                            ProjectRow(1) @@ [offset |-> 0],
                            SyncedEntries(unit.rows, 0, upto), unit.levels),
            !.detected_changes =
                prepare_changes_based_on_changed_versioned_files_entries(
                    SyncedEntries(unit.rows, 0, upto), unit.levels)]
    /\ UNCHANGED <<fetch, chain, catalogue, downstream, pc, state, iter, hist, processed, rw>>

\* The answer of get_versioned_files_entries_by_data_rooms for the project's
\* data room: no entry when no row is new.
LevelsEntriesMap(upto) ==
    IF upto = unit.synced THEN EmptyMap
    ELSE [d \in {DataRoomOf(1)} |-> SyncedEntries(unit.rows, unit.synced, upto)]

\* A later sync: II of load_molecule_projects, with or without new rows.
LevelsSyncExistingProject(upto) ==
    /\ pc = "levels"
    /\ unit.call # "none"
    /\ unit.syncs < MaxSyncs
    /\ upto \in unit.synced..Len(unit.rows)
    /\ unit' = [unit EXCEPT
            !.call = "existing",
            !.syncs = @ + 1,
            !.synced = upto,
            !.entries = IF upto = unit.synced THEN VersionedFilesEntriesDefault
                        ELSE SyncedEntries(unit.rows, unit.synced, upto),
            !.levels_seen = unit.levels,
            !.before = unit.project,
            !.reported_before = unit.detected_changes,
            !.project = ExistingProjectAfterSync(
                            unit.project, LevelsEntriesMap(upto), unit.levels).project,
            !.detected_changes = ExistingProjectAfterSync(
                            unit.project, LevelsEntriesMap(upto),
                            unit.levels).detected_changes]
    /\ UNCHANGED <<fetch, chain, catalogue, downstream, pc, state, iter, hist, processed, rw>>

NextLevels ==
    \/ \E file \in SyncFiles, level \in {"Admin", "Public"} : WriteLevel(file, level)
    \/ \E upto \in 1..MaxSyncRows : LevelsSyncNewProject(upto)
    \/ \E upto \in 0..MaxSyncRows : LevelsSyncExistingProject(upto)

InitLevels ==
    /\ fetch = None
    /\ chain = <<>>
    /\ catalogue = [projects |-> <<>>, data_rooms |-> EmptyMap,
                    access_levels |-> EmptyMap, level_writes |-> 0]
    /\ downstream = DownstreamEmpty
    /\ pc = "levels"
    /\ state = AppStateDefault
    /\ iter = IterationNone
    /\ hist = [sweeps |-> <<>>, minted_and_burnt |-> {}]
    /\ processed = BatchNone
    /\ rw = RwFree
    /\ \E rows \in SyncDataRooms, levels \in SyncAccessLevels :
            unit = [call |-> "none", rows |-> rows, levels |-> levels,
                    levels_seen |-> levels, level_writes |-> 0,
                    synced |-> 0, syncs |-> 0,
                    entries |-> VersionedFilesEntriesDefault,
                    before |-> ProjectionNone, project |-> ProjectionNone,
                    reported_before |-> {}, detected_changes |-> {}]

SpecLevels == InitLevels /\ [][NextLevels]_vars

(***************************************************************************)
(* index_multisig_safes over a multisig map filled by get_owners, with a   *)
(* Safe oracle that may not know a Safe when it is asked                   *)
(***************************************************************************)
MaxSafeBlock == 3           \* the chain finalizes blocks 1..MaxSafeBlock

\* What MultisigResolver::get_multisig_owners can answer for an address: None
\* for a wallet; for a Safe its owners, or None when the oracle answers 404
\* for it.
ResolverAnswers(address) ==
    IF address \in Safes THEN {None, Some(World.safe_owners[address])} ELSE {None}

\* get_owners for an address, given the answer of the resolver: the multisig
\* map after the call.
multisig_after_get_owners(answer, address, multisig, to_block) ==
    CASE address \in DOMAIN multisig -> multisig
      [] ~IsSome(answer) -> MapInsert(multisig, address, None)
      [] OTHER -> get_owners(address, multisig, to_block).multisig

\* The callback of index_multisig_safes, lines 567-572: the unreachable!()
\* a log reaches, if any.
unreachable_of_log(multisig, log) ==
    CASE log.inner.address \notin DOMAIN multisig -> "not_queried"
      [] ~IsSome(multisig[log.inner.address]) -> "not_a_multisig"
      [] OTHER -> "none"

unreachable_unless_known(multisig, logs) ==
    {unreachable_of_log(multisig, logs[i]) : i \in DOMAIN logs} \ {"none"}

GetOwners(address, answer) ==
    /\ pc = "safes"
    /\ unit.panicked = {}
    /\ address \notin DOMAIN unit.multisig
    /\ unit' = [unit EXCEPT
            !.call = "get_owners",
            !.multisig = multisig_after_get_owners(answer, address, @, Len(chain)),
            !.answered_none = IF IsSome(answer) THEN @ ELSE @ \cup {address}]
    /\ UNCHANGED <<fetch, chain, catalogue, downstream, pc, state, iter, hist, processed, rw>>

\* index_multisig_safes over the blocks not swept yet; a log that reaches an
\* unreachable!() ends the call with a panic.
IndexMultisigSafes ==
    /\ pc = "safes"
    /\ unit.panicked = {}
    /\ unit.latest_indexed_block_number < Len(chain)
    /\ unit' = [unit EXCEPT
            !.call = "index_multisig_safes",
            !.panicked =
                unreachable_unless_known(
                    unit.multisig,
                    get_logs_ext(DOMAIN unit.multisig, {"AddedOwner", "RemovedOwner"},
                                 unit.latest_indexed_block_number + 1, Len(chain))),
            !.multisig =
                IF unreachable_unless_known(
                        unit.multisig,
                        get_logs_ext(DOMAIN unit.multisig, {"AddedOwner", "RemovedOwner"},
                                     unit.latest_indexed_block_number + 1, Len(chain))) # {}
                THEN @
                ELSE index_multisig_safes(
                        [AppStateDefault EXCEPT !.multisig = unit.multisig],
                        unit.latest_indexed_block_number + 1, Len(chain)).multisig,
            !.latest_indexed_block_number = Len(chain)]
    /\ UNCHANGED <<fetch, chain, catalogue, downstream, pc, state, iter, hist, processed, rw>>

FinalizeSafeBlock(transaction) ==
    /\ pc = "safes"
    /\ Len(chain) < MaxSafeBlock
    /\ chain' = Append(chain, transaction)
    /\ UNCHANGED <<fetch, catalogue, downstream, pc, state, iter, hist, processed, rw, unit>>

NextSafes ==
    \/ \E address \in Wallets \cup Safes :
        \E answer \in ResolverAnswers(address) : GetOwners(address, answer)
    \/ IndexMultisigSafes
    \/ \E transaction \in SafeTransactions(World) \cup {<<>>} :
            FinalizeSafeBlock(transaction)

InitSafes ==
    /\ fetch = None
    /\ chain = <<>>
    /\ catalogue = [projects |-> <<>>, data_rooms |-> EmptyMap,
                    access_levels |-> EmptyMap, level_writes |-> 0]
    /\ downstream = DownstreamEmpty
    /\ pc = "safes"
    /\ state = AppStateDefault
    /\ iter = IterationNone
    /\ hist = [sweeps |-> <<>>, minted_and_burnt |-> {}]
    /\ processed = BatchNone
    /\ rw = RwFree
    /\ unit = [call |-> "none", multisig |-> EmptyMap, answered_none |-> {},
               latest_indexed_block_number |-> 0, panicked |-> {}]

SpecSafes == InitSafes /\ [][NextSafes]_vars

(***************************************************************************)
(* The application with an IPNFT that changes hands                        *)
(***************************************************************************)
MaxHandoverBlock == 4           \* the chain finalizes blocks 1..MaxHandoverBlock
MaxHandoverTransactions == 3    \* transactions the chain carries

\* The accounts the IPNFT can go to: three wallets, so that the owner before
\* last differs from the last two and is no owner of the Safe.
HandoverWallets == Wallets \cup {"e3"}

HandoverTransactions(w) ==
    UNION {{<<LogIPNFTTransfer(id, w.ipnft_owner[id], to)>> :
                to \in (HandoverWallets \cup Safes \cup {ZERO}) \ {w.ipnft_owner[id]}} :
           id \in LiveIpnfts(w)}

FinalizeHandoverBlock(transaction) ==
    /\ pc # "exited"
    /\ Len(chain) < MaxHandoverBlock
    /\ transaction # <<>> => TransactionCount < MaxHandoverTransactions
    /\ chain' = Append(chain, transaction)
    /\ UNCHANGED <<fetch, catalogue, downstream, pc, state, iter, hist, processed, rw, unit>>

\* Before the bridge starts: block 1 minted IPNFT 1 to e1; the catalogue has
\* its project with the file f1.
InitHandover ==
    /\ fetch = None
    /\ chain = <<<<LogIPNFTTransfer(1, ZERO, "e1"), LogIPNFTMinted(1, "e1")>>>>
    /\ catalogue = [projects |-> <<ProjectRow(1)>>,
                    data_rooms |-> MapInsert(EmptyMap, DataRoomOf(1),
                                             <<[op |-> "Append", ref |-> "f1"]>>),
                    access_levels |-> MapInsert(EmptyMap, "f1", "Admin"),
                    level_writes |-> 0]
    /\ downstream = DownstreamEmpty
    /\ pc = "init"
    /\ state = AppStateDefault
    /\ iter = IterationNone
    /\ hist = [sweeps |-> <<>>, minted_and_burnt |-> {}]
    /\ processed = BatchNone
    /\ rw = RwFree
    /\ unit = UnitNone

NextHandover ==
    \/ \E fail \in Failures \cup {"none"} : Init_(fail)
    \/ \E fail \in Failures \cup {"none"}, due \in BOOLEAN : Update(fail, due)
    \/ \E transaction \in HandoverTransactions(World) \cup {<<>>} :
            FinalizeHandoverBlock(transaction)

SpecHandover == InitHandover /\ [][NextHandover]_vars

(***************************************************************************)
(* minimal_ipt_birth_block of a batch of TokenCreated events, as computed  *)
(* by App::process_tokenizer_events and by                                 *)
(* TokenizerEventProcessingStrategy::process                               *)
(***************************************************************************)
MaxBirthBlock == 3          \* birth blocks are 1..MaxBirthBlock
MaxBirthBatchLen == 2       \* events per batch

\* TokenizerEventProcessingStrategy::process: the response after the events,
\* starting from the values of the two local variables.
RECURSIVE tokenizer_process_from(_, _, _)
tokenizer_process_from(new_ipt_addresses, minimal_ipt_birth_block, events) ==
    IF events = <<>>
    THEN [new_ipt_addresses |-> new_ipt_addresses,
          minimal_ipt_birth_block |-> minimal_ipt_birth_block]
    ELSE tokenizer_process_from(
            Append(new_ipt_addresses, Head(events).token_contract),
            Min(minimal_ipt_birth_block, Head(events).block_number),
            Tail(events))

tokenizer_process(events) == tokenizer_process_from(<<>>, 0, events)

\* The TokenizerEvent::TokenCreated the strategy gets for an event of the App.
TokenizerEventTokenCreated(event) ==
    [token_contract |-> event.token_address, symbol |-> event.symbol,
     block_number |-> event.birth_block]

\* Two minted IPNFTs with the symbol SYM, none tokenized yet.
BirthTokenIds == {1, 2}

BirthAppState ==
    [AppStateDefault EXCEPT
        !.ipnft_state_map =
            [uid \in {IpnftUid(id) : id \in BirthTokenIds} |->
                [ipnft |-> [symbol |-> Some("SYM"), current_owner |-> Some("e1"),
                            former_owner |-> None, minted |-> TRUE, burnt |-> FALSE],
                 project |-> None, token |-> None]]]

\* The IP token of an IPNFT: t1 for IPNFT 1, t2 for IPNFT 2.
BirthTokenOf(token_id) == IF token_id = 1 THEN "t1" ELSE "t2"

BirthEvents ==
    {[symbol |-> symbol, token_id |-> id, token_address |-> BirthTokenOf(id),
      birth_block |-> b] :
        symbol \in TokenizerSymbols, id \in BirthTokenIds, b \in 1..MaxBirthBlock}

\* Non-empty batches in the order of the chain, one creation per IPNFT.
BirthBatches ==
    {events \in UNION {[1..n -> BirthEvents] : n \in 1..MaxBirthBatchLen} :
        \A i \in DOMAIN events : \A j \in DOMAIN events :
            i < j => /\ events[i].birth_block <= events[j].birth_block
                     /\ events[i].token_id # events[j].token_id}

AppProcessesTokenizerEvents ==
    /\ pc = "birth_block"
    /\ ~IsSome(unit.app)
    /\ unit' = [unit EXCEPT
            !.call = "process_tokenizer_events",
            !.app = Some(process_tokenizer_events(BirthAppState, unit.events))]
    /\ UNCHANGED <<fetch, chain, catalogue, downstream, pc, state, iter, hist, processed, rw>>

StrategyProcessesTokenizerEvents ==
    /\ pc = "birth_block"
    /\ ~IsSome(unit.strategy)
    /\ unit' = [unit EXCEPT
            !.call = "TokenizerEventProcessingStrategy::process",
            !.strategy = Some(tokenizer_process(
                [i \in DOMAIN unit.events |-> TokenizerEventTokenCreated(unit.events[i])]))]
    /\ UNCHANGED <<fetch, chain, catalogue, downstream, pc, state, iter, hist, processed, rw>>

NextBirthBlock ==
    \/ AppProcessesTokenizerEvents
    \/ StrategyProcessesTokenizerEvents

InitBirthBlock ==
    /\ fetch = None
    /\ chain = <<>>
    /\ catalogue = [projects |-> <<>>, data_rooms |-> EmptyMap,
                    access_levels |-> EmptyMap, level_writes |-> 0]
    /\ downstream = DownstreamEmpty
    /\ pc = "birth_block"
    /\ state = AppStateDefault
    /\ iter = IterationNone
    /\ hist = [sweeps |-> <<>>, minted_and_burnt |-> {}]
    /\ processed = BatchNone
    /\ rw = RwFree
    /\ \E events \in BirthBatches :
            unit = [call |-> "none", events |-> events, app |-> None, strategy |-> None]

SpecBirthBlock == InitBirthBlock /\ [][NextBirthBlock]_vars

(***************************************************************************)
(* The Log Fetcher on its own                                              *)
(***************************************************************************)

NextLogs ==
    /\ \E answer \in ProviderAnswers, callback_ok \in BOOLEAN :
            BinaryGetLogsStep(answer, callback_ok)
    /\ UNCHANGED appVars

InitLogs ==
    /\ FetchInit
    /\ chain = <<>>
    /\ catalogue = [projects |-> <<>>, data_rooms |-> EmptyMap,
                    access_levels |-> EmptyMap, level_writes |-> 0]
    /\ downstream = DownstreamEmpty
    /\ pc = "init"
    /\ state = AppStateDefault
    /\ iter = IterationNone
    /\ hist = [sweeps |-> <<>>, minted_and_burnt |-> {}]
    /\ processed = BatchNone
    /\ rw = RwFree
    /\ unit = UnitNone

SpecLogs == InitLogs /\ [][NextLogs]_vars

\* The provider answers every request, so a pending request is eventually
\* answered.
SpecLogsFair == SpecLogs /\ WF_vars(NextLogs)



(***************************************************************************)
(* Log Fetcher claims                                                      *)
(***************************************************************************)
DeliveredLogs == Flatten([i \in DOMAIN fetch.delivered |-> fetch.delivered[i].logs])

DeliveredInWindow(w) ==
    Flatten([i \in DOMAIN fetch.delivered |->
                IF fetch.delivered[i].window = w
                THEN fetch.delivered[i].logs ELSE <<>>])

NoDuplicates(s) == \A i, j \in DOMAIN s : i # j => s[i] # s[j]

AscendingBlocks(s) == \A i, j \in DOMAIN s : i < j => s[i].block <= s[j].block

\* Only 'too large' rejections of multi-block ranges and retried transient
\* errors happened: no single-block rejection, no exhausted retries, no
\* other error, no callback error.
OnlyRecoverableFaults == fetch.faults \subseteq {"retryable"}

SplitOfPendingCall ==
    \E s \in fetch.splits :
        /\ s.window = fetch.window
        /\ s.from_block = Head(fetch.stack).from_block
        /\ s.to_block = Head(fetch.stack).to_block

SplitsAreProper ==
    /\ \A s \in fetch.splits :
            /\ s.from_block < s.to_block
            /\ s.from_block <= s.mid
            /\ s.mid < s.to_block
            /\ s.mid = s.from_block + (s.to_block - s.from_block) \div 2
    /\ \A i \in DOMAIN fetch.stack :
            /\ fetch.stack[i].from_block <= fetch.stack[i].to_block
            /\ fetch.stack[i].from_block >= fetch.from_block
            /\ fetch.stack[i].to_block <= fetch.to_block
    /\ "single_block_too_large" \in fetch.faults =>
            /\ fetch.result = "err"
            /\ Head(fetch.stack).from_block = Head(fetch.stack).to_block
            /\ ~SplitOfPendingCall

\* The requests binary_get_logs can still issue: a call on a range of n
\* blocks makes at most 2n - 1 calls (the split tree), each at most
\* MAX_RETRY_COUNT + 1 requests; the requests of the current call already
\* made are spent.
RequestsOfRange(r) ==
    (2 * (r.to_block - r.from_block + 1) - 1) * (MAX_RETRY_COUNT + 1)

RECURSIVE RequestsOfStack(_)
RequestsOfStack(st) ==
    IF st = <<>> THEN 0 ELSE RequestsOfRange(Head(st)) + RequestsOfStack(Tail(st))

RemainingRequests(f) ==
    IF f.result # "running" THEN 0
    ELSE RequestsOfStack(f.stack) - f.attempts
         + (WindowCount(f.addresses) - f.window)
            * RequestsOfRange([from_block |-> f.from_block, to_block |-> f.to_block])

C6_BinaryGetLogsTerminates ==
    /\ []SplitsAreProper
    /\ [](RemainingRequests(fetch) >= 0)
    /\ [][RemainingRequests(fetch') < RemainingRequests(fetch)]_vars

C6_Witness ==
    /\ "single_block_too_large" \in fetch.faults
    /\ Cardinality(fetch.splits) >= 2

\* C7: with_retry calls the operation at most 4 times; after the k-th
\* retryable failure (k = 1..3) it sleeps k seconds; the 4th retryable
\* failure returns an error that is not a transport error (so it is not
\* taken for 'too large' and nothing is split); a success or a
\* non-retryable error returns at once.
C7_WithRetryBounded ==
    /\ fetch.attempts <= MAX_RETRY_COUNT + 1
    /\ fetch.retry_count <= MAX_RETRY_COUNT
    /\ fetch.sleeps = [k \in 1..fetch.retry_count |-> k * DELAY_BETWEEN_RETRIES_STEP]
    /\ LET c == fetch.last_call IN
        /\ c.attempts <= MAX_RETRY_COUNT + 1
        /\ c.returned # "none" =>
                /\ c.attempts = Len(c.sleeps) + 1
                /\ c.sleeps = [k \in 1..(c.attempts - 1) |->
                                    k * DELAY_BETWEEN_RETRIES_STEP]
        /\ c.returned = "Other" <=>
                (c.answer = "retryable" /\ c.attempts = MAX_RETRY_COUNT + 1)
        /\ c.returned = "Other" =>
                /\ fetch.result = "err"
                /\ "retries_exhausted" \in fetch.faults
                /\ ~SplitOfPendingCall
        /\ c.returned = "Ok" <=> c.answer = "ok"
        /\ c.returned = "Transport" <=> c.answer \in {"too_large", "fatal"}

C7_Witness ==
    /\ fetch.last_call.returned = "Other"
    /\ fetch.last_call.sleeps = <<1, 2, 3>>
    /\ fetch.splits # {}

(***************************************************************************)
(* Loop Controller, Reconciler and Applier claims                          *)
(***************************************************************************)
IterationRan == iter.call # "none" /\ ~iter.skipped /\ iter.failed # "finalized"

\* The chain and the catalogue are as the last call saw them.
NothingNewSinceIteration ==
    /\ iter.to_block = latest_finalized_block_number
    /\ iter.catalogue_seen = CatalogueChangeCount

SweepsOf(kind) == SelectSeq(hist.sweeps, LAMBDA s : s.sweep = kind)

TokenSweepsOf(token) ==
    SelectSeq(hist.sweeps, LAMBDA s : s.sweep = "tokens" /\ token \in s.addresses)

Consecutive(sweeps) ==
    \A i \in 1..(Len(sweeps) - 1) :
        /\ sweeps[i].from_block <= sweeps[i].to_block
        /\ sweeps[i + 1].from_block = sweeps[i].to_block + 1

\* The block whose TokensCreated log links the token to an IPNFT.
TokenBirthBlocks(token) ==
    {b \in DOMAIN chain :
        \E i \in DOMAIN chain[b] :
            /\ chain[b][i].sig \in {"TokensCreated", "MoleculesCreated"}
            /\ chain[b][i].tokenContract = token}

C4_SweptRangesConsecutive ==
    /\ [][state'.latest_indexed_block_number >= state.latest_indexed_block_number]_vars
    /\ [](pc = "loop" =>
            /\ Consecutive(SweepsOf("contracts"))
            /\ SweepsOf("contracts")[1].from_block
                    = Min(ipnft_contract_birth_block, tokenizer_contract_birth_block)
            /\ SweepsOf("contracts")[Len(SweepsOf("contracts"))].to_block
                    = state.latest_indexed_block_number
            /\ \A token \in DOMAIN state.token_address_ipnft_uid_mapping :
                /\ TokenSweepsOf(token) # <<>>
                /\ Consecutive(TokenSweepsOf(token))
                /\ \A b \in TokenBirthBlocks(token) :
                        TokenSweepsOf(token)[1].from_block <= b
                /\ TokenSweepsOf(token)[Len(TokenSweepsOf(token))].to_block
                        = state.tokens_latest_indexed_block_number)

C4_TokenSweptTwice ==
    /\ pc = "loop"
    /\ \E token \in TokenContracts : Len(TokenSweepsOf(token)) >= 2
    /\ Len(SweepsOf("contracts")) >= 2

C9_RemovedFilesOnlyUnset ==
    \A i \in DOMAIN iter.emitted :
        \A j \in DOMAIN iter.emitted[i].operations :
            iter.emitted[i].operations[j].dataset_id \in iter.emitted[i].removed_at_build
                => iter.emitted[i].operations[j].operation = "Unset"

\* C10 (as the spec states it): no operation is emitted for an IPNFT that was
\* observed minted and burnt within one batch, in that iteration or later.
C10_NoOperationsAfterMintedAndBurnt ==
    \A i \in DOMAIN iter.emitted :
        iter.emitted[i].ipnft_uid \in hist.minted_and_burnt
            => iter.emitted[i].operations = <<>>

(***************************************************************************)
(* Claims about process_token_transfer_events (SpecTransfers)              *)
(***************************************************************************)
BatchProcessed == processed.outcome = "ok"

Participants(events, token_address) ==
    ({events[i].from : i \in {j \in DOMAIN events : events[j].token_address = token_address}}
     \cup {events[i].to : i \in {j \in DOMAIN events : events[j].token_address = token_address}})
        \ {ZERO}

RECURSIVE SumOfBalances(_, _)
SumOfBalances(holder_balances, holders) ==
    IF holders = {} THEN 0
    ELSE LET holder == CHOOSE h \in holders : TRUE
         IN holder_balances[holder] + SumOfBalances(holder_balances, holders \ {holder})

\* C11 (as the spec states it): after a batch, the keys of
\* participating_holders_balances[u] are exactly the non-zero senders and
\* receivers of the processed's transfers of u's token, each with its own balance
\* in holder_balances after the processed.
C11_ParticipatingHoldersAreTheBatchParticipants ==
    BatchProcessed =>
        \A ipnft_uid \in {u \in DOMAIN state.ipnft_state_map :
                            IsSome(state.ipnft_state_map[u].token)} :
            LET token == Unwrap(state.ipnft_state_map[ipnft_uid].token)
                reported == MapGetOr(processed.participating_holders_balances,
                                     ipnft_uid, EmptyMap)
            IN /\ DOMAIN reported = Participants(processed.events, token.token_address)
               /\ \A a \in DOMAIN reported \cap DOMAIN token.holder_balances :
                    reported[a] = token.holder_balances[a]

\* C12 (as the spec states it): a transfer whose sender's tracked balance is
\* smaller than the value ends the call without a stored balance: with an
\* error (or, at least, a panic), never with a wrapped balance.
C12_OverdrawnSenderFailsTheCall ==
    "sub" \in processed.wrapped =>
        /\ processed.outcome \in {"error", "panicked"}
        /\ HolderBalancesOf(state, IpnftUid(1)) = processed.before

\* C13 (as the spec states it): the entries of holder_balances sum to the
\* values transferred from the zero address minus those transferred to it.
C13_BalancesSumToIssuedMinusRedeemed ==
    processed.outcome \in {"none", "ok"} =>
        SumOfBalances(HolderBalancesOf(state, IpnftUid(1)),
                      DOMAIN HolderBalancesOf(state, IpnftUid(1)))
            = processed.issued - processed.redeemed

\* C13, restricted: the sum is right as long as no `-=` wrapped.
C13_BalancesSumWhenNothingWrapped ==
    [][(processed.outcome = "none" \/ (BatchProcessed /\ processed.wrapped = {}))
        /\ processed'.wrapped = {}
        => SumOfBalances(HolderBalancesOf(state', IpnftUid(1)),
                         DOMAIN HolderBalancesOf(state', IpnftUid(1)))
            = processed'.issued - processed'.redeemed]_vars


(***************************************************************************)
(* Claims about holders (SpecTokenized)                                    *)
(***************************************************************************)
\* The logs of the blocks the last call indexed.
IndexedLogs ==
    Flatten(SubSeq(chain, iter.latest_before + 1, iter.to_block))

EmittedOperations ==
    UNION {Range(iter.emitted[i].operations) : i \in DOMAIN iter.emitted}

UpdateIndexed(logs) ==
    /\ iter.call = "update" /\ IterationRan /\ iter.failed = "none"
    /\ IndexedLogs = logs

OperationOf(address, operation, dataset_id) ==
    [account_id |-> create_did_phk(address), operation |-> operation,
     dataset_id |-> dataset_id]

\* C14 (as the spec states it): with threshold 0, an update that indexes
\* Transfer(0 -> e2, value) of t1 (e2 holds nothing before and is not the owner)
\* emits Set(Reader) for DID(e2) on data_room, announcements and the holder
\* file f1 and grants nothing to anyone else; an update that indexes e2's
\* Transfer(e2 -> 0) of all it holds emits Unset for DID(e2) on every dataset.
C14_IssueGrantsReaderThenRedeemRevokes ==
    /\ \A value \in 1..MaxTransferValue :
        UpdateIndexed(<<LogIPTTransfer("t1", ZERO, "e2", value)>>) =>
            /\ \A d \in {DataRoomOf(1), AnnouncementsOf(1), "f1"} :
                    OperationOf("e2", "Set(Reader)", d) \in EmittedOperations
            /\ \A op \in EmittedOperations :
                    op.operation # "Unset" => op.account_id = create_did_phk("e2")
    /\ \A value \in 1..MaxTransferValue :
        (/\ UpdateIndexed(<<LogIPTTransfer("t1", "e2", ZERO, value)>>)
         /\ HolderBalancesOf(state, IpnftUid(1))["e2"] = 0) =>
            \A d \in {DataRoomOf(1), AnnouncementsOf(1), "f1"} :
                OperationOf("e2", "Unset", d) \in EmittedOperations

\* C14, second half alone: the redeeming update revokes DID(e2) everywhere.
C14_RedeemRevokes ==
    \A value \in 1..MaxTransferValue :
        (/\ UpdateIndexed(<<LogIPTTransfer("t1", "e2", ZERO, value)>>)
         /\ HolderBalancesOf(state, IpnftUid(1))["e2"] = 0) =>
            \A d \in {DataRoomOf(1), AnnouncementsOf(1), "f1"} :
                OperationOf("e2", "Unset", d) \in EmittedOperations

C14_RedeemIndexed ==
    \E value \in 1..MaxTransferValue :
        /\ UpdateIndexed(<<LogIPTTransfer("t1", "e2", ZERO, value)>>)
        /\ HolderBalancesOf(state, IpnftUid(1))["e2"] = 0

\* ---------------------------------------------------------------------
\* C15: init over a lone mint and a catalogue with the project
\* ---------------------------------------------------------------------

\* init ran to its end over a chain whose only logs are the mint of IPNFT 1
\* to the wallet `owner`, and the catalogue it read had the project of IPNFT 1.
InitOverLoneMint(owner) ==
    /\ iter.call = "init" /\ iter.failed = "none"
    /\ IndexedLogs = <<LogIPNFTTransfer(1, ZERO, owner), LogIPNFTMinted(1, owner)>>
    /\ iter.catalogue_seen = CatalogueChangeCount
    /\ Len(catalogue.projects) = 1

DataRoomRows == MapGetOr(catalogue.data_rooms, DataRoomOf(1), <<>>)

\* C15: after init over a history with only IPNFTMinted(1, owner = e1) and a
\* catalogue with the project of IPNFT 1, the applied operations give
\* Set(Maintainer) to DID(e1) on data_room and announcements, the core
\* datasets get no other operation and no other account gets any operation,
\* whatever the data room holds (also when it has no entries yet).
C15_InitGrantsMaintainerOnCoreDatasets ==
    \A owner \in Wallets :
        InitOverLoneMint(owner) =>
            /\ \A d \in {DataRoomOf(1), AnnouncementsOf(1)} :
                    OperationOf(owner, "Set(Maintainer)", d) \in EmittedOperations
            /\ \A op \in EmittedOperations :
                    /\ op.account_id = create_did_phk(owner)
                    /\ op.dataset_id \in {DataRoomOf(1), AnnouncementsOf(1)}
                            => op.operation = "Set(Maintainer)"

\* C15 for a data room that has at least one entry.
C15_InitGrantsMaintainerWhenDataRoomHasEntries ==
    \A owner \in Wallets :
        (InitOverLoneMint(owner) /\ DataRoomRows # <<>>) =>
            /\ \A d \in {DataRoomOf(1), AnnouncementsOf(1)} :
                    OperationOf(owner, "Set(Maintainer)", d) \in EmittedOperations
            /\ \A op \in EmittedOperations :
                    /\ op.account_id = create_did_phk(owner)
                    /\ op.dataset_id \in {DataRoomOf(1), AnnouncementsOf(1)}
                            => op.operation = "Set(Maintainer)"

C15_InitOverLoneMintWithEntries ==
    InitOverLoneMint("e1") /\ DataRoomRows # <<>>

\* ---------------------------------------------------------------------
\* C16: a member leaves the multisig that owns the IPNFT
\* ---------------------------------------------------------------------

WorldBeforeIteration ==
    WorldAfterLogs(GenesisWorld, Flatten(SubSeq(chain, 1, iter.latest_before)))

\* An update indexed exactly RemovedOwner(e2) of the multisig ms, which was
\* tracked before the update with the members {e1, e2} and owns IPNFT 1.
MemberRemovedFromOwningMultisig ==
    /\ UpdateIndexed(<<LogSafeOwner("ms", "RemovedOwner", "e2")>>)
    /\ "ms" \in iter.multisig_before
    /\ WorldBeforeIteration.safe_owners["ms"] = {"e1", "e2"}
    /\ IpnftUid(1) \in DOMAIN iter.projects_before
    /\ state.ipnft_state_map[IpnftUid(1)].ipnft.current_owner = Some("ms")

\* C16: when IPNFT 1 is owned by the tracked multisig ms with the members
\* {e1, e2} and an update indexes RemovedOwner(e2) of ms and no IPNFT event,
\* the IPNFT is in ipnft_changes_map and the emitted operations hold
\* Set(Maintainer) for DID(e1) and Unset for DID(e2) on the core datasets.
C16_RemovedMemberLosesCoreDatasets ==
    MemberRemovedFromOwningMultisig =>
        /\ IpnftUid(1) \in DOMAIN iter.ipnft_changes_map
        /\ \A d \in {DataRoomOf(1), AnnouncementsOf(1)} :
                /\ OperationOf("e1", "Set(Maintainer)", d) \in EmittedOperations
                /\ OperationOf("e2", "Unset", d) \in EmittedOperations

\* ---------------------------------------------------------------------
\* C17: the access level of a known file changes and nothing else does
\* ---------------------------------------------------------------------

ChangedFilesOfIteration ==
    IF IpnftUid(1) \in DOMAIN iter.ipnft_changes_map
    THEN iter.ipnft_changes_map[IpnftUid(1)].changed_files ELSE {}

WorldAtIteration ==
    WorldAfterLogs(GenesisWorld, Flatten(SubSeq(chain, 1, iter.to_block)))

\* The owners of IPNFT 1 after the multisig fan-out, and its holders above
\* the threshold that are not owners, as the contracts have them at to_block.
OwnersAtIteration ==
    LET owner == MapGetOr(WorldAtIteration.ipnft_owner, 1, ZERO)
    IN IF owner \in Safes THEN WorldAtIteration.safe_owners[owner]
       ELSE {owner} \ {ZERO}

HoldersAtIteration ==
    {a \in DOMAIN HolderBalancesOf(state, IpnftUid(1)) :
        HolderBalancesOf(state, IpnftUid(1))[a] > IPT_ACCESS_THRESHOLD}
    \ (OwnersAtIteration \cup {ZERO})

\* An update synchronised the catalogue, indexed no log, found no new data
\* room row, and the file f1 it knew with the level Holder has the latest
\* level Admin in the catalogue.
OnlyLevelOfKnownFileChanged ==
    /\ iter.call = "update" /\ IterationRan /\ iter.failed = "none"
    /\ iter.catalogue_synced
    /\ IndexedLogs = <<>>
    /\ iter.catalogue_seen = CatalogueChangeCount
    /\ IpnftUid(1) \in DOMAIN iter.projects_before
    /\ "f1" \in DOMAIN iter.projects_before[IpnftUid(1)].actual_files_map
    /\ iter.projects_before[IpnftUid(1)].actual_files_map["f1"].molecule_access_level
            = "Holder"
    /\ Len(DataRoomRows)
            = iter.projects_before[IpnftUid(1)].latest_data_room_offset + 1
    /\ MapGetOr(catalogue.access_levels, "f1", "-") = "Admin"

\* C17: when only the latest access level of the known file f1 changes from
\* Holder to Admin, the next catalogue sync reports f1 as changed and the
\* iteration emits Set(Maintainer) on f1 for every current owner, Unset on f1
\* for every current holder, and no operation on another dataset.
C17_LevelChangeAloneIsApplied ==
    OnlyLevelOfKnownFileChanged =>
        /\ \E cf \in ChangedFilesOfIteration : cf.dataset_id = "f1"
        /\ \A a \in OwnersAtIteration :
                OperationOf(a, "Set(Maintainer)", "f1") \in EmittedOperations
        /\ \A a \in HoldersAtIteration :
                OperationOf(a, "Unset", "f1") \in EmittedOperations
        /\ \A op \in EmittedOperations : op.dataset_id = "f1"

\* ---------------------------------------------------------------------
\* C18: a file is added to an existing project
\* ---------------------------------------------------------------------

\* The data room rows the catalogue sync of the iteration read for the
\* project it already had.
NewDataRoomRows ==
    SubSeq(DataRoomRows,
           iter.projects_before[IpnftUid(1)].latest_data_room_offset + 2,
           Len(DataRoomRows))

\* An update synchronised the catalogue and the new rows of the data room of
\* the project it already had link the file f1.
FileAddedToExistingProject ==
    /\ iter.call = "update" /\ IterationRan /\ iter.failed = "none"
    /\ iter.catalogue_synced
    /\ iter.catalogue_seen = CatalogueChangeCount
    /\ IpnftUid(1) \in DOMAIN iter.projects_before
    /\ "f1" \in LiveFiles(NewDataRoomRows)

AccountsAboveThreshold ==
    {a \in DOMAIN HolderBalancesOf(state, IpnftUid(1)) :
        HolderBalancesOf(state, IpnftUid(1))[a] > IPT_ACCESS_THRESHOLD}

\* C18: when a catalogue sync adds the file f1 to an existing project, the
\* same iteration emits an operation on f1 for every current owner (after the
\* multisig fan-out) and for every account whose balance in the full
\* holder_balances is above the threshold, whether or not the account changed
\* in this iteration.
C18_AddedFileReachesEveryOwnerAndHolder ==
    FileAddedToExistingProject =>
        \A a \in OwnersAtIteration \cup AccountsAboveThreshold :
            \E op \in EmittedOperations :
                op.account_id = create_did_phk(a) /\ op.dataset_id = "f1"

\* The file was added in an iteration that indexed no log, and the project has
\* a holder that is not its owner.
C18_FileAddedWhileHolderUnchanged ==
    /\ FileAddedToExistingProject
    /\ IndexedLogs = <<>>
    /\ AccountsAboveThreshold \ OwnersAtIteration # {}

\* ---------------------------------------------------------------------
\* C19: operations reference registered accounts
\* ---------------------------------------------------------------------

\* C19: every account_id in the operations an iteration passed to
\* apply_account_dataset_relations was passed to a create_wallet_accounts call
\* that completed before, in this or an earlier iteration; the accounts of the
\* full-state operation set built for changed files are among them.
C19_OperationsReferenceRegisteredAccounts ==
    IterationRan =>
        \A op \in EmittedOperations : op.account_id \in downstream.accounts

\* C19 for the iterations that report no changed file.
C19_RegisteredWhenNoFileChanged ==
    (IterationRan /\ \A cf \in ChangedFilesOfIteration : FALSE) =>
        \A op \in EmittedOperations : op.account_id \in downstream.accounts

\* ---------------------------------------------------------------------
\* C20: the shutdown signal and the iteration in flight
\* ---------------------------------------------------------------------

\* The call of init or update that the process made last passed its first
\* await and did not reach its end.
LastCallCutShort == iter.call # "none" /\ iter.failed \notin {"none", "finalized"}

\* C20: when the shutdown signal stops the process, the call of init or
\* update that was in flight has run to its end (a call that ran to an error
\* ends the process as exited, not as stopped); it is not left at an
\* intermediate await such as the one after create_wallet_accounts.
C20_ShutdownLetsTheIterationFinish ==
    pc = "stopped" => ~LastCallCutShort

\* The process was stopped after create_wallet_accounts had registered the
\* accounts of an iteration and before any of its operations was applied.
C20_StoppedBetweenAccountsAndRelations ==
    /\ pc = "stopped"
    /\ iter.failed = "apply"
    /\ downstream.accounts # {}
    /\ downstream.relations = {}

\* Without the signal a call that is cut short ends the process as exited.
C20_CutShortOnlyByErrorOrSignal ==
    LastCallCutShort => pc \in {"exited", "stopped"}

\* ---------------------------------------------------------------------
\* C21: what a reader of the shared AppState can see
\* ---------------------------------------------------------------------

\* C21: every snapshot a reader of the shared AppState gets is the empty state
\* or the state that the last returned call of init or update left; it is
\* never the state an update has written while it stands at an await, and
\* never a state of init before init publishes.
C21_ReaderSeesIterationBoundaries ==
    IsSome(rw.snapshot) =>
        Unwrap(rw.snapshot).state = Unwrap(rw.snapshot).boundary

\* C21: while the write lock is not held, the shared state is the one the last
\* returned call left.
C21_UnlockedStateIsABoundary ==
    ~rw.write_locked => state = rw.boundary

\* A reader got the state a completed update left, which differs from the
\* state the update started from.
C21_SnapshotAfterAnUpdate ==
    /\ IsSome(rw.snapshot)
    /\ iter.call = "update" /\ iter.failed = "none" /\ ~iter.skipped
    /\ Unwrap(rw.snapshot).state = state
    /\ state # rw.before

\* An update holds the lock at an await with the state already changed.
C21_UpdateMidwayHoldsTheLock ==
    /\ pc = "in_update" /\ rw.write_locked
    /\ state # rw.boundary

\* ---------------------------------------------------------------------
\* C22: access_changes is append-only and complete
\* ---------------------------------------------------------------------

NonEmptyHanded == SelectSeq(unit.handed, LAMBDA operations : operations # <<>>)

\* C22: every non-empty operation list handed to
\* apply_account_dataset_relations has its own entry in access_changes, and
\* an entry that is present is neither removed nor overwritten, also when two
\* IPNFTs are reconciled at the same timestamp.
C22_AccessChangesAppendOnlyAndComplete ==
    unit.call = "access_applying" =>
        /\ Cardinality(DOMAIN unit.access_changes) = Len(NonEmptyHanded)
        /\ \A now \in DOMAIN unit.previous :
                /\ now \in DOMAIN unit.access_changes
                /\ unit.access_changes[now] = unit.previous[now]

\* C22 while the clock never answered an instant that is already a key.
C22_CompleteWhileTimestampsDiffer ==
    (unit.call = "access_applying" /\ ~unit.repeated) =>
        /\ Cardinality(DOMAIN unit.access_changes) = Len(NonEmptyHanded)
        /\ \A now \in DOMAIN unit.previous :
                /\ now \in DOMAIN unit.access_changes
                /\ unit.access_changes[now] = unit.previous[now]

C22_TwoEntriesWithDifferentTimestamps ==
    unit.call = "access_applying" /\ ~unit.repeated /\ Len(NonEmptyHanded) = 2

\* ---------------------------------------------------------------------
\* C23: init is a function of the chain, the oracle and the catalogue
\* ---------------------------------------------------------------------

MintedThenTransferredToMultisig ==
    /\ unit.call = "process"
    /\ Len(unit.events) = 2
    /\ unit.events[1].kind = "Minted"
    /\ unit.events[2].kind = "Transfer"
    /\ unit.events[2].ipnft_uid = unit.events[1].ipnft_uid
    /\ unit.events[2].from = unit.events[1].initial_owner
    /\ IsSome(unit.resolver[unit.events[2].to])

GrantsOfMembers ==
    {Decision("GrantMaintainerAccess", unit.events[1].ipnft_uid, member) :
        member \in Unwrap(unit.resolver[unit.events[2].to])}

\* C24: for a batch in which an IPNFT is minted to A and then transferred to
\* a multisig M, process returns exactly one GrantMaintainerAccess per
\* current member of M and no other decision.
C24_OnlyGrantsForMembers ==
    MintedThenTransferredToMultisig =>
        /\ Range(unit.decisions) = GrantsOfMembers
        /\ Len(unit.decisions) = Cardinality(GrantsOfMembers)

\* C24 without "no other decision": one grant per member, no revocation,
\* and one AddMultisigToIndexing for M.
C24_GrantsForMembersAndMultisigIndexed ==
    MintedThenTransferredToMultisig =>
        /\ Range(unit.decisions) =
                GrantsOfMembers
                \cup {Decision("AddMultisigToIndexing", unit.events[1].ipnft_uid,
                               unit.events[2].to)}
        /\ Len(unit.decisions) = Cardinality(GrantsOfMembers) + 1

C24_OwnerIsMemberOfTheMultisig ==
    /\ MintedThenTransferredToMultisig
    /\ unit.events[1].initial_owner \in Unwrap(unit.resolver[unit.events[2].to])
    /\ Cardinality(Unwrap(unit.resolver[unit.events[2].to])) = 2

\* ---------------------------------------------------------------------
\* C25: IpnftUid survives to_string and from_str
\* ---------------------------------------------------------------------

\* C25: for every IpnftUid (any contract address, any token id of the
\* width), parsing its string form {address}_{token_id} gives back the same
\* IpnftUid.
C25_ParseOfDisplayIsTheUid ==
    unit.call = "from_str" => unit.parsed = Some(unit.original)

\* The largest token id, under an address with letters in upper case.
C25_LargestTokenIdParsed ==
    /\ unit.call = "from_str"
    /\ unit.original.token_id = U256Modulus - 1
    /\ unit.original.ipnft_address[1] = 10
    /\ unit.upper[1]
    /\ Len(unit.displayed) = 2 + AddressNibbles + 1 + Len(u256_to_string(U256Modulus - 1))

\* ---------------------------------------------------------------------
\* C26: the chain ids DidPhk accepts
\* ---------------------------------------------------------------------

\* C26: DidPhk::new_from_chain_id succeeds exactly for the chain ids 1 and
\* 11155111; for every other chain id it returns an error, and the
\* reconciliation of an IPNFT that has an account to name fails with no
\* account created and no relation applied.
C26_OnlyMainnetAndSepolia ==
    unit.call = "initial_access_applying_for_ipnft" =>
        /\ \A a \in Wallets :
                IsSome(unit.did_phk[a]) <=> unit.chain_id \in {1, 11155111}
        /\ (/\ unit.chain_id \notin {1, 11155111}
            /\ unit.accounts.current_owners \cup unit.accounts.holders
                    \cup unit.accounts.revoke_access_accounts # {})
                => unit.result.failed /\ unit.result.node = unit.node
        /\ unit.chain_id \in {1, 11155111} => ~unit.result.failed

C26_FailedOnAnotherChain ==
    /\ unit.call = "initial_access_applying_for_ipnft"
    /\ unit.chain_id = 5
    /\ unit.accounts.current_owners = {"e1"}
    /\ unit.accounts.holders = {"e2"}
    /\ unit.result.failed

C26_AppliedOnSepolia ==
    /\ unit.call = "initial_access_applying_for_ipnft"
    /\ unit.chain_id = 11155111
    /\ unit.result.node.accounts # {}
    /\ unit.result.node.relations # {}

\* ---------------------------------------------------------------------
\* C27: actual_files_map and removed_files_map share no file
\* ---------------------------------------------------------------------

\* C27: in every reachable ProjectProjection no dataset_id is a key of both
\* actual_files_map and removed_files_map.
C27_NoFileInBothMaps ==
    \A uid \in DOMAIN ProjectsOf(state) :
        DOMAIN ProjectsOf(state)[uid].actual_files_map
            \cap DOMAIN ProjectsOf(state)[uid].removed_files_map = {}

\* C27 for the projection of a project that was only created, not yet
\* synchronised again: the fold of the data room rows keeps a file on one side.
C27_NoFileInBothMapsAfterInit ==
    (iter.call = "init" /\ iter.failed = "none") =>
        \A uid \in DOMAIN ProjectsOf(state) :
            DOMAIN ProjectsOf(state)[uid].actual_files_map
                \cap DOMAIN ProjectsOf(state)[uid].removed_files_map = {}

\* ---------------------------------------------------------------------
\* C28: the files of an existing project after a sync
\* ---------------------------------------------------------------------

AddedWithLevel ==
    build_added_file_entries_with_molecule_access_level_map(
        unit.entries.added_entities, unit.levels)

\* C28: for an existing project, after a catalogue sync that returns the
\* added set A and the removed set R for its data room, actual_files_map is
\* the previous actual_files_map minus the keys of R plus the files of A that
\* have an access level, and removed_files_map gains exactly R; a file that
\* is neither in A nor in R stays in actual_files_map.
C28_ActualFilesAfterSync ==
    unit.call = "existing" =>
        /\ unit.project.actual_files_map =
                MapExtend(
                    MapOnly(unit.before.actual_files_map,
                            DOMAIN unit.before.actual_files_map
                                \ DOMAIN unit.entries.removed_entities),
                    AddedWithLevel)
        /\ unit.project.removed_files_map =
                MapExtend(unit.before.removed_files_map, unit.entries.removed_entities)

\* The part of C28 about removed_files_map and the added files.
C28_RemovedGainsAndAddedEnter ==
    unit.call = "existing" =>
        /\ unit.project.removed_files_map =
                MapExtend(unit.before.removed_files_map, unit.entries.removed_entities)
        /\ \A d \in DOMAIN AddedWithLevel :
                /\ d \in DOMAIN unit.project.actual_files_map
                /\ unit.project.actual_files_map[d] = AddedWithLevel[d]

\* A file that the sync does not mention is dropped from actual_files_map.
C28_UnmentionedFileDropped ==
    /\ unit.call = "existing"
    /\ \E d \in DOMAIN unit.before.actual_files_map :
            /\ d \notin DOMAIN unit.entries.added_entities
            /\ d \notin DOMAIN unit.entries.removed_entities
            /\ d \notin DOMAIN unit.project.actual_files_map

\* ---------------------------------------------------------------------
\* C29: the first probe of a multisig and the RemovedOwner logs
\* ---------------------------------------------------------------------

\* The owners that RemovedOwner logs of the safe in blocks [0, to_block] name.
RemovedOwnersUpTo(safe, to_block) ==
    {get_logs_ext({safe}, {"RemovedOwner"}, 0, to_block)[i].inner.owner :
        i \in DOMAIN get_logs_ext({safe}, {"RemovedOwner"}, 0, to_block)}

\* The last iteration indexed up to iter.to_block, and get_owners probed the
\* safe for the first time in it.
FirstProbedInIteration(safe) ==
    /\ IterationRan /\ iter.failed = "none"
    /\ state.latest_indexed_block_number = iter.to_block
    /\ safe \notin iter.multisig_before
    /\ safe \in DOMAIN state.multisig
    /\ IsSome(state.multisig[safe])

\* C29: when get_owners first probes a multisig during an iteration that
\* indexes up to block T (init or update), the stored former_owners contains
\* every owner removed by a RemovedOwner log in [0, T] that is not a current
\* owner, so that the later sweeps from T + 1 leave no such log unprocessed.
C29_FirstProbeCoversIndexedBlocks ==
    \A safe \in Safes :
        FirstProbedInIteration(safe) =>
            RemovedOwnersUpTo(safe, iter.to_block)
                    \ Unwrap(state.multisig[safe]).current_owners
                \subseteq Unwrap(state.multisig[safe]).former_owners

\* C29 for a first probe during init, where to_block is the indexed block.
C29_InitProbeCoversIndexedBlocks ==
    \A safe \in Safes :
        (FirstProbedInIteration(safe) /\ iter.call = "init") =>
            RemovedOwnersUpTo(safe, iter.to_block)
                    \ Unwrap(state.multisig[safe]).current_owners
                \subseteq Unwrap(state.multisig[safe]).former_owners

C29_InitProbeWithRemovedOwner ==
    \E safe \in Safes :
        /\ FirstProbedInIteration(safe) /\ iter.call = "init"
        /\ Unwrap(state.multisig[safe]).former_owners # {}

\* ---------------------------------------------------------------------
\* C30: the cache of SafeWalletApiService::get_multisig_owners
\* ---------------------------------------------------------------------

\* The await points a call passed: get_code_at, send, json.
PassedCodeAt(call) == ~call.hit /\ call.at # "get_code_at"
PassedSend(call) ==
    \/ call.at = "json"
    \/ call.at = "returned" /\ call.answer \in OracleStatuses \cup {"json_error"}

C30_CacheChangesOnlyWithAnAnswer ==
    [][/\ DOMAIN unit.cache \subseteq DOMAIN unit'.cache
       /\ \A c \in DOMAIN unit'.calls :
            (/\ unit'.calls[c].at = "returned"
             /\ (c \notin DOMAIN unit.calls \/ unit.calls[c].at # "returned")
             /\ ~unit'.calls[c].wrote)
                => unit'.cache = unit.cache]_vars

C31_ProjectionInvariants ==
    \A uid \in DOMAIN state.ipnft_state_map :
        /\ state.ipnft_state_map[uid].ipnft.burnt
                => state.ipnft_state_map[uid].ipnft.current_owner = None
        /\ state.ipnft_state_map[uid].ipnft.minted
                => IsSome(state.ipnft_state_map[uid].ipnft.symbol)

\* C31, the half about the symbol: a minted projection has its symbol.
C31_MintedHasSymbol ==
    \A uid \in DOMAIN state.ipnft_state_map :
        state.ipnft_state_map[uid].ipnft.minted
            => IsSome(state.ipnft_state_map[uid].ipnft.symbol)

\* C31 for an IPNFT whose mint and burn came in the batch that created its
\* state: the stored projection is the batch's, with no owner.
C31_BurntInTheCreatingBatchHasNoOwner ==
    \A uid \in hist.minted_and_burnt :
        uid \in DOMAIN state.ipnft_state_map =>
            /\ state.ipnft_state_map[uid].ipnft.burnt
            /\ state.ipnft_state_map[uid].ipnft.current_owner = None

\* An IPNFT was burnt in a batch after the one that created its state.
C31_BurntInALaterBatch ==
    \E uid \in DOMAIN state.ipnft_state_map :
        /\ state.ipnft_state_map[uid].ipnft.burnt
        /\ uid \notin hist.minted_and_burnt

\* ---------------------------------------------------------------------
\* C32: which TokenCreated events are linked
\* ---------------------------------------------------------------------

\* The contracts sweep that delivered block b to the stored AppState.
SweepsThatDelivered(b) ==
    {s \in Range(hist.sweeps) :
        /\ s.sweep = "contracts"
        /\ s.from_block <= b /\ b <= s.to_block
        /\ s.to_block <= state.latest_indexed_block_number}

\* The IPNFT contract has logged the mint of token_id with this symbol in a
\* block up to to_block: after the fold of a sweep up to to_block the
\* ipnft_state_map holds an IpnftState with this token_id and symbol.
MintedWithSymbolUpTo(token_id, symbol, to_block) ==
    \E b \in DOMAIN chain : \E i \in DOMAIN chain[b] :
        /\ b <= to_block
        /\ chain[b][i].sig = "IPNFTMinted"
        /\ chain[b][i].tokenId = token_id
        /\ chain[b][i].symbol = symbol

TokenLinked(app_state, token_address, token_id) ==
    /\ token_address \in DOMAIN app_state.token_address_ipnft_uid_mapping
    /\ app_state.token_address_ipnft_uid_mapping[token_address] = IpnftUid(token_id)

TokenUnknown(app_state, token_address) ==
    /\ token_address \notin DOMAIN app_state.token_address_ipnft_uid_mapping
    /\ \A uid \in DOMAIN app_state.ipnft_state_map :
          IsSome(app_state.ipnft_state_map[uid].token) =>
            Unwrap(app_state.ipnft_state_map[uid].token).token_address # token_address

\* The creation events of the blocks the stored AppState has indexed.
ProcessedCreations ==
    {<<b, i>> \in (DOMAIN chain) \X (1..2) :
        /\ i \in DOMAIN chain[b]
        /\ chain[b][i].sig \in CreationSignatures
        /\ b <= state.latest_indexed_block_number}

\* C32: a TokenCreated event is linked exactly when the IpnftState with its
\* token_id and symbol is in ipnft_state_map once the IPNFT events of the
\* event's own sweep are folded; an event without it is skipped, the call
\* returns no error for it, and in no later state the token is linked, swept
\* or held by an IpnftState.
C32_LinkedExactlyWhenMatched ==
    \A p \in ProcessedCreations :
        /\ SweepsThatDelivered(p[1]) # {}
        /\ TokenLinked(state, chain[p[1]][p[2]].tokenContract, chain[p[1]][p[2]].ipnftId)
            <=> \E s \in SweepsThatDelivered(p[1]) :
                    MintedWithSymbolUpTo(chain[p[1]][p[2]].ipnftId,
                                         chain[p[1]][p[2]].symbol, s.to_block)
        /\ ~TokenLinked(state, chain[p[1]][p[2]].tokenContract, chain[p[1]][p[2]].ipnftId)
            => /\ TokenUnknown(state, chain[p[1]][p[2]].tokenContract)
               /\ \A s \in Range(hist.sweeps) :
                    s.sweep = "tokens" =>
                        chain[p[1]][p[2]].tokenContract \notin s.addresses

\* C32 as a step: a token that was skipped stays unknown in every later state.
C32_SkippedStaysSkipped ==
    [][\A p \in ProcessedCreations :
        TokenUnknown(state, chain[p[1]][p[2]].tokenContract)
            => TokenUnknown(state', chain[p[1]][p[2]].tokenContract)]_vars

\* An update has run, without an error, over blocks that hold a transfer of
\* a token whose creation event an earlier call skipped.
C32_SkippedTokenTransferredLater ==
    /\ iter.call = "update" /\ ~iter.skipped /\ iter.failed = "none"
    /\ \E p \in ProcessedCreations :
        /\ p[1] <= iter.latest_before
        /\ TokenUnknown(state, chain[p[1]][p[2]].tokenContract)
        /\ \E b \in DOMAIN chain : \E i \in DOMAIN chain[b] :
            /\ b > iter.latest_before /\ b <= iter.to_block
            /\ chain[b][i].address = chain[p[1]][p[2]].tokenContract

\* A creation event was linked to an IPNFT minted in a block of the same sweep.
C32_LinkedToIpnftOfTheSameSweep ==
    \E p \in ProcessedCreations : \E s \in SweepsThatDelivered(p[1]) :
        /\ TokenLinked(state, chain[p[1]][p[2]].tokenContract, chain[p[1]][p[2]].ipnftId)
        /\ ~MintedWithSymbolUpTo(chain[p[1]][p[2]].ipnftId,
                                 chain[p[1]][p[2]].symbol, s.from_block - 1)

\* ---------------------------------------------------------------------
\* C33: an update with no progress possible changes nothing
\* ---------------------------------------------------------------------

\* The step is a call of update that got the latest finalized block.
UpdateCalled ==
    /\ pc = "loop"
    /\ chain' = chain /\ catalogue' = catalogue
    /\ iter'.call = "update" /\ iter'.failed # "finalized"

\* C33: an update that starts with latest_finalized_block <=
\* latest_indexed_block_number + 1 returns Ok and leaves the AppState as it
\* was: no sweep is made, the catalogue is not synchronised (whether or not
\* its interval has elapsed), molecule_projects_last_requested_at keeps its
\* value and nothing is applied to the node.
C33_NoProgressPossibleChangesNothing ==
    [][(UpdateCalled
        /\ latest_finalized_block_number <= state.latest_indexed_block_number + 1)
        => /\ iter'.failed = "none" /\ pc' = "loop"
           /\ iter'.skipped
           /\ state' = state
           /\ hist' = hist
           /\ ~iter'.catalogue_synced
           /\ iter'.emitted = <<>> /\ iter'.classifications = {}
           /\ downstream' = downstream]_vars

\* An update was skipped with one finalized block not indexed yet, while the
\* catalogue holds the project of an indexed IPNFT the state has not attached.
C33_SkippedWithWorkPending ==
    /\ iter.call = "update" /\ iter.skipped
    /\ iter.to_block = latest_finalized_block_number
    /\ iter.catalogue_seen = CatalogueChangeCount
    /\ latest_finalized_block_number = state.latest_indexed_block_number + 1
    /\ chain[Len(chain)] # <<>>
    /\ \E i \in DOMAIN catalogue.projects :
        /\ catalogue.projects[i].ipnft_uid \in DOMAIN state.ipnft_state_map
        /\ state.ipnft_state_map[catalogue.projects[i].ipnft_uid].project = None

\* ---------------------------------------------------------------------
\* C34: a file without an access level
\* ---------------------------------------------------------------------

\* The call synchronised the catalogue, returned no error and the catalogue is
\* as the call saw it.
SyncedWithoutError ==
    /\ IterationRan /\ iter.failed = "none"
    /\ iter.catalogue_synced
    /\ iter.catalogue_seen = CatalogueChangeCount

\* The files linked in the project's data room for which the catalogue has no
\* access level, and which the project never saw removed.
FilesWithoutLevel(project) ==
    {f \in LiveFiles(catalogue.data_rooms[project.entry.data_room_dataset_id]) :
        /\ f \notin DOMAIN catalogue.access_levels
        /\ f \notin DOMAIN project.removed_files_map}

ChangedFilesOf(uid) ==
    IF uid \in DOMAIN iter.ipnft_changes_map
    THEN {c.dataset_id : c \in iter.ipnft_changes_map[uid].changed_files}
    ELSE {}

C34_SyncReturnsNoError ==
    pc = "loop" => update(state, downstream, "none", TRUE).failed = "none"

LevelChanges(detected_changes) ==
    {c \in detected_changes : c.change.kind = "MoleculeAccessLevelChanged"}

\* C35: after a catalogue sync has detected that the access level of a file
\* of actual_files_map changed to L, the file's molecule_access_level in
\* actual_files_map is L, and get_project_dataset_ids puts the file on the
\* side of L (an Admin file is not among the holders' files).
C35_StoredLevelFollowsDetectedChange ==
    unit.call = "existing" =>
        \A c \in LevelChanges(unit.detected_changes) :
            /\ c.dataset_id \in DOMAIN unit.project.actual_files_map
            /\ unit.project.actual_files_map[c.dataset_id].molecule_access_level
                    = c.change.level
            /\ c.change.level = "Admin" =>
                    c.dataset_id \notin
                        get_project_dataset_ids(unit.project).holder_file_dataset_ids

\* C35, the next sync: a change of level that a sync reported is not reported
\* again by the next sync.
C35_ChangeReportedOnce ==
    (unit.call = "existing" /\ unit.syncs >= 2) =>
        LevelChanges(unit.detected_changes) \cap LevelChanges(unit.reported_before) = {}

\* What holds: a reported change names the level the catalogue has for a file
\* of actual_files_map whose stored level is another one.
C35_ReportedChangeIsTheCatalogueLevel ==
    unit.call = "existing" =>
        \A c \in LevelChanges(unit.detected_changes) :
            /\ c.dataset_id \in DOMAIN unit.project.actual_files_map
            /\ c.change.level = unit.levels_seen[c.dataset_id]
            /\ unit.project.actual_files_map[c.dataset_id].molecule_access_level
                    # c.change.level

\* A sync has reported a change of level.
C35_LevelChangeDetected ==
    /\ unit.call = "existing"
    /\ LevelChanges(unit.detected_changes) # {}

\* ---------------------------------------------------------------------
\* C36: the unreachable!() branches of index_multisig_safes
\* ---------------------------------------------------------------------

\* C36: no call of index_multisig_safes reaches an unreachable!(): every log
\* the sweep delivers comes from an address whose entry in the multisig map is
\* Some(state), although the sweep asks for every key of the map.
C36_UnreachableNeverReached ==
    unit.call = "index_multisig_safes" => unit.panicked = {}

\* C36, the first branch: every delivered log comes from a key of the map.
C36_LogsComeFromQueriedAddresses ==
    "not_queried" \notin unit.panicked

\* C36 while the oracle has answered None for wallets only.
C36_UnreachableOnlyAfter404ForASafe ==
    unit.answered_none \cap Safes = {} => unit.panicked = {}

\* A sweep has delivered logs of a Safe and folded them into its state.
C36_SafeLogsFolded ==
    /\ unit.call = "index_multisig_safes"
    /\ unit.panicked = {}
    /\ \E a \in DOMAIN unit.multisig :
        /\ IsSome(unit.multisig[a])
        /\ Unwrap(unit.multisig[a]).former_owners # {}
    /\ \E a \in DOMAIN unit.multisig : ~IsSome(unit.multisig[a])

\* ---------------------------------------------------------------------
\* C37: token_address_ipnft_uid_mapping against the token projections
\* ---------------------------------------------------------------------
TokenOf(app_state, ipnft_uid) == app_state.ipnft_state_map[ipnft_uid].token

\* C37: in every reachable AppState, every entry t -> u of
\* token_address_ipnft_uid_mapping has ipnft_state_map[u].token attached with
\* token_address = t; a token, once attached, is not replaced by a later
\* creation event for the same IPNFT (which would leave the entry of the
\* first token behind).
C37_MappingAgreesWithTokens ==
    \A t \in DOMAIN state.token_address_ipnft_uid_mapping :
        /\ state.token_address_ipnft_uid_mapping[t] \in DOMAIN state.ipnft_state_map
        /\ IsSome(TokenOf(state, state.token_address_ipnft_uid_mapping[t]))
        /\ Unwrap(TokenOf(state, state.token_address_ipnft_uid_mapping[t])).token_address = t

\* C37, second half as a property of every step: an attached token keeps its
\* address.
C37_AttachedTokenIsNeverReplaced ==
    [][\A u \in DOMAIN state.ipnft_state_map :
        IsSome(TokenOf(state, u))
            => /\ u \in DOMAIN state'.ipnft_state_map
               /\ IsSome(TokenOf(state', u))
               /\ Unwrap(TokenOf(state', u)).token_address
                    = Unwrap(TokenOf(state, u)).token_address]_vars

\* C37, the other direction: an attached token is a key of the mapping and
\* leads back to its IPNFT.
C37_AttachedTokenIsMapped ==
    \A u \in DOMAIN state.ipnft_state_map :
        IsSome(TokenOf(state, u))
            => /\ Unwrap(TokenOf(state, u)).token_address
                    \in DOMAIN state.token_address_ipnft_uid_mapping
               /\ state.token_address_ipnft_uid_mapping[
                    Unwrap(TokenOf(state, u)).token_address] = u

\* C37 while at most one creation event has matched.
C37_AgreesAfterOneCreation ==
    Cardinality(DOMAIN state.token_address_ipnft_uid_mapping) <= 1
        => C37_MappingAgreesWithTokens

\* An attached token with balances has been indexed.
C37_TokenAttachedWithBalances ==
    \E u \in DOMAIN state.ipnft_state_map :
        /\ IsSome(TokenOf(state, u))
        /\ DOMAIN Unwrap(TokenOf(state, u)).holder_balances # {}

\* ---------------------------------------------------------------------
\* C38: an IPNFT transferred more than once within one indexing batch
\* ---------------------------------------------------------------------

\* The accounts the owner of the IPNFT stands for on the chain: the wallet, or
\* the Safe with its current owners; nobody once the IPNFT is burnt.
FanOutOnChain(token_id) ==
    CASE World.ipnft_owner[token_id] = ZERO -> {}
      [] World.ipnft_owner[token_id] \in Safes ->
            {World.ipnft_owner[token_id]} \cup World.safe_owners[World.ipnft_owner[token_id]]
      [] OTHER -> {World.ipnft_owner[token_id]}

MaintainersOnNode == {r.account_id : r \in {x \in downstream.relations : x.role = "Maintainer"}}

\* The transfers of an IPNFT between owners in the blocks from_block..to_block.
HandoversIn(from_block, to_block) ==
    {b \in DOMAIN chain :
        /\ from_block <= b /\ b <= to_block
        /\ \E i \in DOMAIN chain[b] :
            /\ chain[b][i].address = ipnft_contract_address
            /\ chain[b][i].sig = "Transfer"
            /\ chain[b][i].from # ZERO}

\* Every call so far has succeeded and the last one indexed the chain to its end.
CaughtUpWithoutFailure ==
    /\ iter.call = "update" /\ iter.failed = "none" /\ ~iter.skipped
    /\ iter.to_block = Len(chain)
    /\ state.latest_indexed_block_number = Len(chain)
    /\ pc # "exited"

\* C38: after an update that indexed the transfers of an IPNFT, only the
\* fan-out of its current owner holds Maintainer (the IPNFT is not burnt):
\* every former owner, also
\* one that is neither the current owner nor its direct predecessor (A of
\* A -> B -> C in one batch), has been sent Unset.
C38_OnlyCurrentOwnerFanOutIsMaintainer ==
    (CaughtUpWithoutFailure /\ World.ipnft_owner[1] # ZERO) =>
        MaintainersOnNode \subseteq {create_did_phk(a) : a \in FanOutOnChain(1)}

\* C38 for batches with at most one transfer of the IPNFT.
C38_OneTransferPerBatch ==
    (/\ CaughtUpWithoutFailure
     /\ \A s \in Range(hist.sweeps) :
            s.sweep = "contracts" =>
                Cardinality(HandoversIn(s.from_block, s.to_block)) <= 1)
        => MaintainersOnNode \subseteq {create_did_phk(a) : a \in FanOutOnChain(1)}

\* An update has indexed two transfers of the IPNFT in one batch.
C38_TwoTransfersInOneBatch ==
    /\ CaughtUpWithoutFailure
    /\ Cardinality(HandoversIn(iter.latest_before + 1, iter.to_block)) >= 2
    /\ World.ipnft_owner[1] # ZERO
    /\ MaintainersOnNode # {}

\* ---------------------------------------------------------------------
\* C39: project entries skipped by the sync that first returned them
\* ---------------------------------------------------------------------

\* The rows of the catalogue's projects dataset whose IPNFT is indexed and
\* whose data room has entries.
AttachableProjectRows ==
    {k \in DOMAIN catalogue.projects :
        /\ catalogue.projects[k].ipnft_uid \in DOMAIN state.ipnft_state_map
        /\ catalogue.data_rooms[catalogue.projects[k].data_room_dataset_id] # <<>>}

ProjectAttached(k) ==
    IsSome(state.ipnft_state_map[catalogue.projects[k].ipnft_uid].project)

\* The sync has read the projects dataset beyond row k (offsets start at 0).
OffsetPast(k) ==
    /\ IsSome(state.projects_dataset_offset)
    /\ Unwrap(state.projects_dataset_offset) >= k - 1

\* C39: a project entry of an on-chain IPNFT is attached by a sync that runs
\* once the IPNFT is indexed and the data room has entries, also when an
\* earlier sync skipped the entry and projects_dataset_offset is past it.
C39_SkippedEntryIsAttachedByALaterSync ==
    SyncedWithoutError =>
        \A k \in AttachableProjectRows : ProjectAttached(k)

\* C39, what happens instead: an entry the offset has passed without the
\* project being attached is not attached by any later step.
C39_PassedEntryIsNeverAttached ==
    [][\A k \in DOMAIN catalogue.projects :
        (/\ OffsetPast(k)
         /\ catalogue.projects[k].ipnft_uid \in DOMAIN state.ipnft_state_map
         /\ ~ProjectAttached(k)
         /\ catalogue.projects[k].ipnft_uid \in DOMAIN state'.ipnft_state_map)
            => ~IsSome(state'.ipnft_state_map[catalogue.projects[k].ipnft_uid].project)]_vars

\* C39 for an entry the sync has not read before: the call that returns it
\* for the first time attaches it, if the IPNFT is indexed by then and the
\* data room has entries.
C39_EntryAttachedWhenFirstReturned ==
    [][(state' # state /\ SyncedWithoutError')
        => \A k \in AttachableProjectRows' :
            ~OffsetPast(k) => ProjectAttached(k)']_vars

\* A sync has passed an entry whose IPNFT is indexed by now.
C39_EntryPassedAndIpnftIndexed ==
    /\ SyncedWithoutError
    /\ \E k \in AttachableProjectRows : OffsetPast(k) /\ ~ProjectAttached(k)

\* ---------------------------------------------------------------------
\* C40: minimal_ipt_birth_block of a batch of TokenCreated events
\* ---------------------------------------------------------------------
SmallestOf(blocks) == CHOOSE b \in blocks : \A other \in blocks : b <= other

\* The birth blocks of the tokens the App attaches: the events with an IPNFT
\* of the same token id and symbol.
BirthBlocksOfAttached(events) ==
    {events[i].birth_block : i \in {j \in DOMAIN events :
        find_ipnft_state(BirthAppState.ipnft_state_map, events[j]) # {}}}

BirthBlocksOfAll(events) == {events[i].birth_block : i \in DOMAIN events}

\* C40, App::process_tokenizer_events: for a batch that creates a token,
\* minimal_ipt_birth_block is the smallest birth block of the created tokens.
C40_AppMinimalBirthBlock ==
    (IsSome(unit.app) /\ BirthBlocksOfAttached(unit.events) # {})
        => Unwrap(unit.app).minimal_ipt_birth_block
                = SmallestOf(BirthBlocksOfAttached(unit.events))

\* C40: for a non-empty batch of TokenCreated events with birth blocks
\* greater than 0, minimal_ipt_birth_block is the smallest birth block of the
\* tokens created by the batch, in App::process_tokenizer_events and in
\* TokenizerEventProcessingStrategy::process.
C40_MinimalBirthBlockIsTheSmallest ==
    /\ C40_AppMinimalBirthBlock
    /\ IsSome(unit.strategy)
        => Unwrap(unit.strategy).minimal_ipt_birth_block
                = SmallestOf(BirthBlocksOfAll(unit.events))

\* C40, what the strategy computes: 0 for every batch.
C40_StrategyAnswersZero ==
    IsSome(unit.strategy) => Unwrap(unit.strategy).minimal_ipt_birth_block = 0

\* The App has attached two tokens with different birth blocks, the later
\* event being the one with the smaller token id.
C40_AppBatchOfTwoTokens ==
    /\ IsSome(unit.app)
    /\ Cardinality(BirthBlocksOfAttached(unit.events)) = 2
    /\ Unwrap(unit.app).minimal_ipt_birth_block = unit.events[1].birth_block

====
